---- MODULE Spec2Model ----
(***************************************************************************)
(* State-machine model of the social-media QueryBuilder                    *)
(* (src/social_media/query_builder.py, src/social_media/enums.py).         *)
(*                                                                         *)
(* Conventions                                                             *)
(*  - An optional argument is a sequence: <<>> is Python's None, <<v>> is  *)
(*    the value v.                                                         *)
(*  - A display name is the sequence of its whitespace-separated words, so *)
(*    that "".join(name.split()) is a real computation (NoSpace).          *)
(*  - A Page carries the field gen: the number of times its key had been   *)
(*    assigned in the registry when the object was built.  Two Page values *)
(*    are the same Python object iff they are equal with gen (Python's     *)
(*    `is`); dataclass equality (Python's ==, `in`) ignores gen (PageEq).  *)
(*  - The seeded random source is a nondeterministic choice (\E) over the  *)
(*    values a draw can return.  A 128-bit uuid draw returns an identifier *)
(*    not issued before (collisions of uuids are not modelled).            *)
(*  - `result` records the last call: its arguments, its outcome (ok, or   *)
(*    the exception raised), the warnings it surfaced and the lists as     *)
(*    they were before the call.                                           *)
(***************************************************************************)
EXTENDS Integers, Sequences, FiniteSets, TLC

VARIABLES pages, places, social_relations, educations, employments,
          group_memberships, post_ids, comment_ids, result,
          promotion_count, user_count, order_count

vars == <<pages, places, social_relations, educations, employments,
          group_memberships, post_ids, comment_ids, result,
          promotion_count, user_count, order_count>>

\* the counters of the bookstore builder (src/src), an object of its own:
\* no call on the social-media builder touches them
bookstore == <<promotion_count, user_count, order_count>>

----------------------------------------------------------------------------
(* Bounds of the model *)

\* number of digits of a handle suffix (3 in the source), scaled down
SuffixDigits == 1
\* number of values of one suffix digit (10 in the source), scaled down
DigitBase == 2
\* registered individuals
MaxPersons == 3
\* recorded social relations
MaxRelations == 3
\* individuals registered from the start where only relations are requested
FamilySize == 4
\* registered individuals where participants are passed explicitly
MaxForcedPersons == 2
\* individuals registered from the start where memberships are requested
MaxGroupProfiles == 2
\* created groups
MaxGroups == 2
\* recorded group memberships
MaxMemberships == 3
\* times the entry of one identifier is replaced by an organisation
MaxOverwrites == 1
\* registered individuals where affiliations are requested
MaxStudents == 2
\* recorded educations and employments
MaxBindings == 3
\* registered individuals where the registry is exercised
MaxRegistered == 2
\* issued handles where the warning threshold is exercised
MaxHandles == 4
\* friendships forced before conversations on self timelines
MaxTies == 2
\* recorded content identifiers below which a conversation is requested
MaxContent == 2
\* years of the timestamps that are parsed and written back
MaxStampYears == 3
\* entries of a name table, and the percentile steps an entry can add
MaxEntries == 3
MaxSteps == 3
\* landmarks created where the place tree is exercised
MaxLandmarks == 2
\* organisations registered where automatic targets are exercised
MaxTargets == 2
\* post ids recorded where posts are created directly
MaxPosts == 3
\* digits of a bookstore identifier (4 in the source), scaled down
id_digits == 2
\* number of values of one digit of a bookstore identifier (10 in the source),
\* scaled down
id_base == 3

----------------------------------------------------------------------------
(* Optional values *)

None == <<>>

Some(v) == <<v>>

Range(s) == {s[i] : i \in DOMAIN s}

----------------------------------------------------------------------------
(* enums.py *)

Gender == {"female", "male", "other"}

SocialRelationType ==
    {"friendship", "family", "parentship", "siblingship",
     "relationship", "engagement", "marriage"}

is_relationship(type) == type \in {"relationship", "engagement", "marriage"}

GroupMemberRank == {"member", "moderator", "admin", "owner"}

PlaceType == {"region", "country", "state", "city", "landmark"}

PageType ==
    {"person", "organisation", "company", "charity", "educational-institute",
     "school", "college", "university", "group"}

is_profile(type) ==
    type \in {"person", "organisation", "company", "charity",
              "educational-institute", "school", "college", "university"}

is_organisation(type) ==
    type \in {"organisation", "company", "charity", "educational-institute",
              "school", "college", "university"}

is_institute(type) ==
    type \in {"educational-institute", "school", "college", "university"}

\* OrganisationType.page_type / InstituteType.page_type: the member of
\* PageType with the same value
page_type(type) == CHOOSE t \in PageType : t = type

\* SocialRelationType.choose(random, choices): one member of choices
SocialRelationType_choose(choices) == Range(choices)

----------------------------------------------------------------------------
(* Dataclasses *)

Page(type, id, name, gen) == [type |-> type, id |-> id, name |-> name, gen |-> gen]

\* dataclass __eq__ of Page: the declared fields, not the object
PageEq(a, b) == a.type = b.type /\ a.id = b.id /\ a.name = b.name

Place(type, id, name, parent, gen) ==
    [type |-> type, id |-> id, name |-> name, parent |-> parent, gen |-> gen]

SocialRelation(type, persons) == [type |-> type, persons |-> persons]

\* the generation of the object stored next under key in registry
NextGen(registry, key) ==
    IF key \in DOMAIN registry THEN registry[key].gen + 1 ELSE 0

----------------------------------------------------------------------------
(* Name tables (resources/*.yml): value and cumulative percentile *)

female_names == <<[value |-> "Ann", percentile |-> 100]>>

male_names == <<[value |-> "Bo", percentile |-> 100]>>

last_names == <<[value |-> "Lee", percentile |-> 100]>>

----------------------------------------------------------------------------
(* Views of the registry *)

persons == {pages[k] : k \in {k \in DOMAIN pages : pages[k].type = "person"}}

organisations == {pages[k] : k \in {k \in DOMAIN pages : is_organisation(pages[k].type)}}

institutes == {pages[k] : k \in {k \in DOMAIN pages : is_institute(pages[k].type)}}

groups == {pages[k] : k \in {k \in DOMAIN pages : pages[k].type = "group"}}

profiles == {pages[k] : k \in {k \in DOMAIN pages : is_profile(pages[k].type)}}

\* `page in relation.persons`: tuple containment compares with ==
InPersons(page, relation) ==
    PageEq(page, relation.persons[1]) \/ PageEq(page, relation.persons[2])

\* a lookup that never finds a relation
get_social_relation_none(pair) == None

get_social_relation(pair) ==
    LET found == {i \in DOMAIN social_relations :
                    InPersons(pair[1], social_relations[i])
                    /\ InPersons(pair[2], social_relations[i])}
    IN IF found = {} THEN None
       ELSE Some(social_relations[CHOOSE i \in found : \A j \in found : i <= j])

social_relation_count(person) ==
    Cardinality({i \in DOMAIN social_relations : InPersons(person, social_relations[i])})

relationship_count(person) ==
    Cardinality({i \in DOMAIN social_relations :
                   is_relationship(social_relations[i].type)
                   /\ InPersons(person, social_relations[i])})

\* the parents counted on the wrong side of the pair
parent_count_first(person) ==
    Cardinality({i \in DOMAIN social_relations :
                   social_relations[i].type = "parentship"
                   /\ PageEq(social_relations[i].persons[1], person)})

parent_count(person) ==
    Cardinality({i \in DOMAIN social_relations :
                   social_relations[i].type = "parentship"
                   /\ PageEq(social_relations[i].persons[2], person)})

----------------------------------------------------------------------------
(* Random places *)

get_random_place(place_type) ==
    IF place_type = None THEN {places[k] : k \in DOMAIN places}
    ELSE {places[k] : k \in {k \in DOMAIN places : places[k].type = place_type[1]}}

----------------------------------------------------------------------------
(* Names and handles *)

RECURSIVE NoSpace(_)
\* "".join(name.split())
NoSpace(name) == IF name = <<>> THEN "" ELSE Head(name) \o NoSpace(Tail(name))

\* the first entry whose cumulative percentile is above the draw
choose_random_name_strict(name_list, percentile) ==
    LET hit == {i \in DOMAIN name_list : name_list[i].percentile > percentile}
    IN IF hit = {} THEN None
       ELSE Some(name_list[CHOOSE i \in hit : \A j \in hit : i <= j].value)

\* the first entry whose cumulative percentile is >= the draw
choose_random_name(name_list, percentile) ==
    LET hit == {i \in DOMAIN name_list : name_list[i].percentile >= percentile}
    IN IF hit = {} THEN None
       ELSE Some(name_list[CHOOSE i \in hit : \A j \in hit : i <= j].value)

\* the draws random.uniform(0.0, top) is modelled to return
UniformDraws(top) == {0, top} \cup {(top * k) \div 4 : k \in 1..3}

get_random_gender(percentile) ==
    IF 0 <= percentile /\ percentile < 5 THEN "other"
    ELSE IF 5 <= percentile /\ percentile < 50 THEN "male"
    ELSE "female"

\* the first names _generate_new_name(FIRST, gender) can return
FirstNames(gender) ==
    LET of(list) == UNION {Range(choose_random_name(list, p)) :
                             p \in UniformDraws(list[Len(list)].percentile)}
    IN CASE gender = "female" -> of(female_names)
         [] gender = "male" -> of(male_names)
         [] gender = "other" -> of(female_names) \cup of(male_names)

LastNames ==
    UNION {Range(choose_random_name(last_names, p)) :
             p \in UniformDraws(last_names[Len(last_names)].percentile)}

\* the names _generate_new_name(FULL, gender) can return: "first last"
generate_new_name(gender) == {<<f, l>> : f \in FirstNames(gender), l \in LastNames}

RECURSIVE Digits(_)
\* the strings of n random digits
Digits(n) ==
    IF n = 0 THEN {""}
    ELSE {ToString(d) \o rest : d \in 0..(DigitBase - 1), rest \in Digits(n - 1)}

username_warning_threshold == DigitBase ^ SuffixDigits

\* the handles the retry loop can return: not the id of a registered person
generate_new_person_username(name) ==
    {u \in {NoSpace(name) \o number_part : number_part \in Digits(SuffixDigits)} :
       u \notin {person.id : person \in persons}}

----------------------------------------------------------------------------
(* The record of the last call *)

\* before: the list the call appends to, as it was when the call was made
Outcome(op, args, status, warnings, chosen, before) ==
    [op |-> op, args |-> args, status |-> status, warnings |-> warnings,
     chosen |-> chosen, before |-> before]

NoPlaces == "RuntimeError: No places of the desired type exist."

Saturated == "RuntimeError: User pool has been saturated with plausible social relations."

KeyError == "KeyError"

WarnUsernames == "The number of usernames generated has exceeded the threshold."

WarnDuplicate == "Social relation between people already in a social relation is being forcibly generated."

WarnRelationship == "Relationship between partner(s) already in other relationships is being forcibly generated."

WarnParentship == "Parentship for person already with two parents is being forcibly generated."

----------------------------------------------------------------------------
(* Initial state: a new QueryBuilder *)

NoResult == Outcome("init", <<>>, "ok", {}, <<>>, <<>>)

Init ==
    /\ pages = <<>>
    /\ places = <<>>
    /\ social_relations = <<>>
    /\ educations = <<>>
    /\ employments = <<>>
    /\ group_memberships = <<>>
    /\ post_ids = <<>>
    /\ comment_ids = <<>>
    /\ result = NoResult
    /\ promotion_count = 0
    /\ user_count = 0
    /\ order_count = 0

----------------------------------------------------------------------------
(* Places *)

\* a creation that registers a root where the parent is not registered
place_orphan(place_type, name, place_id, parent_id) ==
    /\ UNCHANGED <<pages, social_relations, educations, employments,
                   group_memberships, post_ids, comment_ids>>
    /\ LET parent == IF parent_id = None \/ parent_id[1] \notin DOMAIN places THEN None
                     ELSE Some(places[parent_id[1]])
           new == Place(place_type, place_id, name, parent, NextGen(places, place_id))
       IN /\ places' = (place_id :> new) @@ places
          /\ UNCHANGED bookstore /\ result' = Outcome(place_type, <<name, place_id, parent_id>>, "ok", {}, <<new>>, <<>>)

\* _place(place_type, name, place_id, parent_id) with place_id given
place(place_type, name, place_id, parent_id) ==
    /\ UNCHANGED <<pages, social_relations, educations, employments,
                   group_memberships, post_ids, comment_ids>>
    /\ IF parent_id # None /\ parent_id[1] \notin DOMAIN places
       THEN /\ UNCHANGED bookstore /\ result' = Outcome(place_type, <<name, place_id, parent_id>>, KeyError, {}, <<>>, <<>>)
            /\ UNCHANGED places
       ELSE LET parent == IF parent_id = None THEN None ELSE Some(places[parent_id[1]])
                new == Place(place_type, place_id, name, parent, NextGen(places, place_id))
            IN /\ places' = (place_id :> new) @@ places
               /\ UNCHANGED bookstore /\ result' = Outcome(place_type, <<name, place_id, parent_id>>, "ok", {}, <<new>>, <<>>)

city(name, place_id, parent_id) == place("city", name, place_id, parent_id)

region(name, place_id, parent_id) == place("region", name, place_id, parent_id)

place_id_prefix == "plc"

\* _generate_new_place_id: an identifier no registered place has
generate_new_place_id ==
    place_id_prefix \o "-"
    \o ToString(CHOOSE n \in 1..(Cardinality(DOMAIN places) + 1) :
                  /\ (place_id_prefix \o "-" \o ToString(n)) \notin DOMAIN places
                  /\ \A k \in 1..(n - 1) : (place_id_prefix \o "-" \o ToString(k)) \in DOMAIN places)

\* landmark(name, parent_id): the parent defaults to a random city, the
\* identifier is generated
landmark(name, parent_id) ==
    LET args == <<name, None, parent_id>>
        fail(status) == /\ UNCHANGED bookstore /\ result' = Outcome("landmark", args, status, {}, <<>>, <<>>)
                        /\ UNCHANGED places
    IN
    /\ UNCHANGED <<pages, social_relations, educations, employments,
                   group_memberships, post_ids, comment_ids>>
    /\ IF parent_id = None /\ get_random_place(Some("city")) = {} THEN fail(NoPlaces)
       ELSE \E resolved \in (IF parent_id = None
                              THEN {chosen.id : chosen \in get_random_place(Some("city"))}
                              ELSE {parent_id[1]}) :
              IF resolved \notin DOMAIN places THEN fail(KeyError)
              ELSE LET place_id == generate_new_place_id
                       new == Place("landmark", place_id, name, Some(places[resolved]),
                                    NextGen(places, place_id))
                   IN /\ places' = (place_id :> new) @@ places
                      /\ UNCHANGED bookstore /\ result' = Outcome("landmark", args, "ok", {}, <<new>>, <<>>)

----------------------------------------------------------------------------
(* person *)

person(location_id, birth_location_id) ==
    /\ \E percentile \in UniformDraws(100) :
       \E name \in generate_new_name(get_random_gender(percentile)) :
       \E username \in generate_new_person_username(name) :
         LET warnings == IF Cardinality(persons) >= username_warning_threshold
                         THEN {WarnUsernames} ELSE {}
             new == Page("person", username, name, NextGen(pages, username))
             args == <<location_id, birth_location_id>>
         IN /\ pages' = (username :> new) @@ pages
            /\ UNCHANGED bookstore /\ result' =
                 IF (location_id = None \/ birth_location_id = None)
                    /\ get_random_place(Some("city")) = {}
                 THEN Outcome("person", args, NoPlaces, warnings, <<new>>, <<>>)
                 ELSE Outcome("person", args, "ok", warnings, <<new>>, <<>>)
    /\ UNCHANGED <<places, social_relations, educations, employments,
                   group_memberships, post_ids, comment_ids>>

----------------------------------------------------------------------------
(* social_relation *)

\* the romantic categories offered whatever the participants hold
relation_type_choices_romantic(pair) ==
    <<"friendship", "family", "siblingship">>
    \o (IF parent_count(pair[2]) < 2 THEN <<"parentship">> ELSE <<>>)
    \o <<"relationship", "engagement", "marriage">>

\* parentship offered whatever the parents of the second participant
relation_type_choices_parentship(pair) ==
    <<"friendship", "family", "siblingship", "parentship">>
    \o (IF \A i \in 1..2 : relationship_count(pair[i]) = 0
        THEN <<"relationship", "engagement", "marriage">> ELSE <<>>)

\* the candidate categories of an auto-selected category
relation_type_choices(pair) ==
    <<"friendship", "family", "siblingship">>
    \o (IF parent_count(pair[2]) < 2 THEN <<"parentship">> ELSE <<>>)
    \o (IF \A i \in 1..2 : relationship_count(pair[i]) = 0
        THEN <<"relationship", "engagement", "marriage">> ELSE <<>>)

\* every pair of distinct individuals, related or not
pair_choices_all == {pair \in persons \X persons : ~PageEq(pair[1], pair[2])}

\* the unrelated pairs, an individual paired with itself included
pair_choices_self == {pair \in persons \X persons : get_social_relation(pair) = None}

\* the pairs an auto-selection draws from
pair_choices ==
    {pair \in persons \X persons :
       ~PageEq(pair[1], pair[2]) /\ get_social_relation(pair) = None}

\* the duplicate pair is not reported
relation_warnings_no_duplicate(pair, relation_type) ==
    (IF is_relationship(relation_type)
        /\ \E i \in 1..2 : relationship_count(pair[i]) >= 1
     THEN {WarnRelationship} ELSE {})
    \cup (IF relation_type = "parentship" /\ parent_count(pair[2]) >= 2
          THEN {WarnParentship} ELSE {})

\* the third parent is reported one parent late
relation_warnings_late(pair, relation_type) ==
    (IF get_social_relation(pair) # None THEN {WarnDuplicate} ELSE {})
    \cup (IF is_relationship(relation_type)
             /\ \E i \in 1..2 : relationship_count(pair[i]) >= 1
          THEN {WarnRelationship} ELSE {})
    \cup (IF relation_type = "parentship" /\ parent_count(pair[2]) > 2
          THEN {WarnParentship} ELSE {})

relation_warnings(pair, relation_type) ==
    (IF get_social_relation(pair) # None THEN {WarnDuplicate} ELSE {})
    \cup (IF is_relationship(relation_type)
             /\ \E i \in 1..2 : relationship_count(pair[i]) >= 1
          THEN {WarnRelationship} ELSE {})
    \cup (IF relation_type = "parentship" /\ parent_count(pair[2]) >= 2
          THEN {WarnParentship} ELSE {})

social_relation(usernames, relation_type, location_id) ==
    LET args == <<usernames, relation_type, location_id>>
        fail(status, warnings, chosen) ==
            /\ UNCHANGED bookstore /\ result' = Outcome("social_relation", args, status, warnings, chosen, social_relations)
            /\ UNCHANGED social_relations
    IN
    /\ UNCHANGED <<pages, places, educations, employments, group_memberships,
                   post_ids, comment_ids>>
    /\ IF usernames = None /\ pair_choices = {}
         THEN fail(Saturated, {}, <<>>)
       ELSE IF usernames # None /\ ~(Range(usernames[1]) \subseteq DOMAIN pages)
         THEN fail(KeyError, {}, <<>>)
       ELSE
         \E pair \in (IF usernames = None THEN pair_choices
                      ELSE {<<pages[usernames[1][1]], pages[usernames[1][2]]>>}) :
         \E type \in (IF relation_type = None
                      THEN SocialRelationType_choose(relation_type_choices(pair))
                      ELSE {relation_type[1]}) :
           LET warnings == relation_warnings(pair, type)
               new == SocialRelation(type, pair)
           IN IF location_id = None /\ get_random_place(Some("city")) = {}
                THEN fail(NoPlaces, warnings, <<new>>)
              ELSE /\ social_relations' = Append(social_relations, new)
                   /\ UNCHANGED bookstore /\ result' = Outcome("social_relation", args, "ok", warnings, <<new>>, social_relations)

----------------------------------------------------------------------------
(* Timestamps.  A timestamp string and a format are sequences of tokens: a  *)
(* numeric field (Num) or literal text (Lit).                               *)

Num(value) == [kind |-> "num", text |-> "", value |-> value]

Lit(text) == [kind |-> "lit", text |-> text, value |-> 0]

\* the string "YYYY-MM-DD"
DateString(year, month, day) ==
    <<Num(year), Lit("-"), Num(month), Lit("-"), Num(day)>>

\* the string "YYYY-MM-DDTHH:MM:SS.FFF"
PreciseString(year, month, day, millisecond) ==
    DateString(year, month, day)
    \o <<Lit("T"), Num(0), Lit(":"), Num(0), Lit(":"), Num(0), Lit("."), Num(millisecond)>>

TimestampFormat == {"DATE", "DATETIME", "PRECISE_DATETIME"}

\* TimestampFormat._format: a directive is written Lit("%x")
format_of(format) ==
    CASE format = "DATE" ->
           <<Lit("%Y"), Lit("-"), Lit("%m"), Lit("-"), Lit("%d")>>
      [] format = "DATETIME" ->
           <<Lit("%Y"), Lit("-"), Lit("%m"), Lit("-"), Lit("%d"), Lit("T"),
             Lit("%H"), Lit(":"), Lit("%M"), Lit(":"), Lit("%S")>>
      [] format = "PRECISE_DATETIME" ->
           <<Lit("%Y"), Lit("-"), Lit("%m"), Lit("-"), Lit("$d"), Lit("T"),
             Lit("%H"), Lit(":"), Lit("%M"), Lit(":"), Lit("%S"), Lit("."), Lit("%f")>>

Directives == {"%Y", "%m", "%d", "%H", "%M", "%S", "%f"}

\* datetime.strptime: the fields read, or None where it raises ValueError
strptime(string, pattern) ==
    LET matches(i) ==
            IF pattern[i].text \in Directives THEN string[i].kind = "num"
            ELSE string[i] = pattern[i]
    IN IF Len(string) = Len(pattern) /\ \A i \in DOMAIN pattern : matches(i)
       THEN Some([i \in {j \in DOMAIN pattern : pattern[j].text \in Directives}
                    |-> string[i].value])
       ELSE None

\* TimestampFormat.parse_string: "000" is appended to a precise timestamp
parse_string(format, timestamp) ==
    LET last == timestamp[Len(timestamp)]
        padded == IF format = "PRECISE_DATETIME" /\ last.kind = "num"
                  THEN [timestamp EXCEPT ![Len(timestamp)] = Num(last.value * 1000)]
                  ELSE timestamp
    IN strptime(padded, format_of(format))

\* TimestampFormat.to_string: the fields written under the format; the last
\* three digits are cut from a precise timestamp
to_string(format, fields) ==
    LET pattern == format_of(format)
        written == [i \in DOMAIN pattern |->
                      IF i \in DOMAIN fields THEN Num(fields[i]) ELSE pattern[i]]
        last == written[Len(written)]
    IN IF format = "PRECISE_DATETIME" /\ last.kind = "num"
       THEN [written EXCEPT ![Len(written)] = Num(last.value \div 1000)]
       ELSE written

\* the string "YYYY-MM-DDTHH:MM:SS"
DateTimeString(year, month, day, second) ==
    DateString(year, month, day) \o <<Lit("T"), Num(0), Lit(":"), Num(0), Lit(":"), Num(second)>>

\* to_string(parse_string(timestamp)) under one format, as in
\* _get_random_timestamp: the string written back, or the ValueError
round_trip(format, timestamp) ==
    LET parsed == parse_string(format, timestamp)
    IN /\ UNCHANGED bookstore /\ result' = IF parsed = None
                    THEN Outcome("round_trip", <<format, timestamp>>, "ValueError", {}, <<>>, <<>>)
                    ELSE Outcome("round_trip", <<format, timestamp>>, "ok", {},
                                 <<to_string(format, parsed[1])>>, <<>>)
       /\ UNCHANGED <<pages, places, social_relations, educations, employments,
                      group_memberships, post_ids, comment_ids>>

birth_range == <<DateString(1980, 1, 1), DateString(1985, 1, 1)>>

social_relation_range == <<DateString(2003, 1, 1), DateString(2025, 1, 1)>>

education_range == <<DateString(2003, 1, 1), DateString(2008, 1, 1)>>

employment_range == <<DateString(2008, 1, 1), DateString(2025, 1, 1)>>

post_range == <<PreciseString(2020, 1, 1, 0), PreciseString(2025, 1, 1, 0)>>

\* _get_random_timestamp: the strings it can return (the instants start and
\* start plus whole years below end), or {} where parsing raises ValueError
get_random_timestamp(format, range) ==
    LET start == parse_string(format, range[1])
        end == parse_string(format, range[2])
    IN IF start = None \/ end = None THEN {}
       ELSE {to_string(format, [start[1] EXCEPT ![1] = year]) :
               year \in {y \in start[1][1]..end[1][1] : y = start[1][1] \/ y < end[1][1]}}

----------------------------------------------------------------------------
(* Identifiers *)

\* a uuid draw: a token not issued before
generate_new_uuid(issued) ==
    ToString(CHOOSE n \in 1..(Cardinality(issued) + 1) :
               /\ ToString(n) \notin issued
               /\ \A m \in 1..(n - 1) : ToString(m) \in issued)

group_id_prefix == "grp"

generate_new_group_id ==
    group_id_prefix \o "-"
    \o generate_new_uuid({ToString(n) : n \in {m \in 1..Cardinality(DOMAIN pages) :
                                                 (group_id_prefix \o "-" \o ToString(m)) \in DOMAIN pages}})

----------------------------------------------------------------------------
(* organisation, group *)

organisation(organisation_type, name, location_id) ==
    LET username == NoSpace(name)
        new == Page(page_type(organisation_type), username, name, NextGen(pages, username))
        args == <<organisation_type, name, location_id>>
    IN /\ pages' = (username :> new) @@ pages
       /\ UNCHANGED bookstore /\ result' =
            IF location_id = None /\ get_random_place(Some("city")) = {}
            THEN Outcome("organisation", args, NoPlaces, {}, <<new>>, <<>>)
            ELSE Outcome("organisation", args, "ok", {}, <<new>>, <<>>)
       /\ UNCHANGED <<places, social_relations, educations, employments,
                      group_memberships, post_ids, comment_ids>>

group(name) ==
    LET group_id == generate_new_group_id
        new == Page("group", group_id, name, NextGen(pages, group_id))
    IN /\ pages' = (group_id :> new) @@ pages
       /\ UNCHANGED bookstore /\ result' = Outcome("group", <<name>>, "ok", {}, <<new>>, <<>>)
       /\ UNCHANGED <<places, social_relations, educations, employments,
                      group_memberships, post_ids, comment_ids>>

----------------------------------------------------------------------------
(* group_membership *)

GroupMembership(group_page, member, rank) ==
    [group |-> group_page, member |-> member, rank |-> rank]

\* the members recorded for this group object
get_members(group_page) ==
    {group_memberships[i].member :
       i \in {j \in DOMAIN group_memberships : group_memberships[j].group = group_page}}

\* no group is ever seen to have an owner
has_owner_never(group_page) == FALSE

\* an owner of any group counts
has_owner_anywhere(group_page) ==
    \E i \in DOMAIN group_memberships : group_memberships[i].rank = "owner"

has_owner(group_page) ==
    \E i \in DOMAIN group_memberships :
        group_memberships[i].group = group_page /\ group_memberships[i].rank = "owner"

\* GroupMemberRank.choose(random): a rank of the remaining rank set
GroupMemberRank_choose == GroupMemberRank \ {"owner"}

IndexError == "IndexError: Cannot choose from an empty sequence"

ValueError == "ValueError"

SaturatedGroup == "RuntimeError: Group is saturated with members."

group_membership(username, group_id, timestamp_range, rank) ==
    LET args == <<username, group_id, timestamp_range, rank>>
        fail(status) ==
            /\ UNCHANGED bookstore /\ result' = Outcome("group_membership", args, status, {}, <<>>, group_memberships)
            /\ UNCHANGED group_memberships
        member_choices(group_page) ==
            {profile \in profiles : \A member \in get_members(group_page) : ~PageEq(profile, member)}
    IN
    /\ UNCHANGED <<pages, places, social_relations, educations, employments,
                   post_ids, comment_ids>>
    /\ IF group_id = None /\ groups = {}
         THEN fail(IndexError)
       ELSE IF group_id # None /\ group_id[1] \notin DOMAIN pages
         THEN fail(KeyError)
       ELSE
         \E group_page \in (IF group_id = None THEN groups ELSE {pages[group_id[1]]}) :
           IF username = None /\ member_choices(group_page) = {}
             THEN fail(SaturatedGroup)
           ELSE IF username # None /\ username[1] \notin DOMAIN pages
             THEN fail(KeyError)
           ELSE
             \E profile \in (IF username = None THEN member_choices(group_page)
                             ELSE {pages[username[1]]}) :
               IF timestamp_range = None
                  /\ get_random_timestamp("PRECISE_DATETIME", post_range) = {}
                 THEN fail(ValueError)
               ELSE
                 \E new_rank \in (IF rank # None THEN {rank[1]}
                                  ELSE IF ~has_owner(group_page) THEN {"owner"}
                                  ELSE GroupMemberRank_choose) :
                   LET new == GroupMembership(group_page, profile, new_rank)
                   IN /\ group_memberships' = Append(group_memberships, new)
                      /\ UNCHANGED bookstore /\ result' = Outcome("group_membership", args, "ok", {}, <<new>>, group_memberships)

----------------------------------------------------------------------------
(* education, employment *)

Education(institute, attendee) == [institute |-> institute, attendee |-> attendee]

Employment(employer, employee) == [employer |-> employer, employee |-> employee]

\* the binding recorded for this person object
get_education(person_page) ==
    LET found == {i \in DOMAIN educations : educations[i].attendee = person_page}
    IN IF found = {} THEN None
       ELSE Some(educations[CHOOSE i \in found : \A j \in found : i <= j])

get_employment(person_page) ==
    LET found == {i \in DOMAIN employments : employments[i].employee = person_page}
    IN IF found = {} THEN None
       ELSE Some(employments[CHOOSE i \in found : \A j \in found : i <= j])

get_random_organisation(organisation_type) ==
    IF organisation_type = None THEN organisations
    ELSE {page \in organisations : page.type = page_type(organisation_type[1])}

get_random_institute(institute_type) ==
    IF institute_type = None THEN institutes
    ELSE {page \in institutes : page.type = page_type(institute_type[1])}

SaturatedEducations == "RuntimeError: User pool has been saturated with plausible educations."

SaturatedEmployments == "RuntimeError: User pool has been saturated with plausible employments."

NoInstitutes == "RuntimeError: No institutes of the desired type exist."

NoOrganisations == "RuntimeError: No organisations of the desired type exist."

education(person_username, institute_username, institute_type, date_range) ==
    LET args == <<person_username, institute_username, institute_type, date_range>>
        fail(status) ==
            /\ UNCHANGED bookstore /\ result' = Outcome("education", args, status, {}, <<>>, educations)
            /\ UNCHANGED educations
        choices == {page \in persons : get_education(page) = None}
    IN
    /\ UNCHANGED <<pages, places, social_relations, employments, group_memberships,
                   post_ids, comment_ids>>
    /\ IF person_username = None /\ choices = {}
         THEN fail(SaturatedEducations)
       ELSE IF person_username # None /\ person_username[1] \notin DOMAIN pages
         THEN fail(KeyError)
       ELSE IF institute_username = None /\ get_random_institute(institute_type) = {}
         THEN fail(NoInstitutes)
       ELSE IF institute_username # None /\ institute_username[1] \notin DOMAIN pages
         THEN fail(KeyError)
       ELSE IF date_range = None
               /\ \/ get_random_timestamp("DATE", education_range) = {}
                  \/ \E start_date \in get_random_timestamp("DATE", education_range) :
                        get_random_timestamp("DATE", <<start_date, education_range[2]>>) = {}
         THEN fail(ValueError)
       ELSE
         \E attendee \in (IF person_username = None THEN choices
                          ELSE {pages[person_username[1]]}) :
         \E institute \in (IF institute_username = None
                           THEN get_random_institute(institute_type)
                           ELSE {pages[institute_username[1]]}) :
           LET new == Education(institute, attendee)
           IN /\ educations' = Append(educations, new)
              /\ UNCHANGED bookstore /\ result' = Outcome("education", args, "ok", {}, <<new>>, educations)

employment(person_username, organisation_username, organisation_type, date_range) ==
    LET args == <<person_username, organisation_username, organisation_type, date_range>>
        fail(status) ==
            /\ UNCHANGED bookstore /\ result' = Outcome("employment", args, status, {}, <<>>, employments)
            /\ UNCHANGED employments
        choices == {page \in persons : get_employment(page) = None}
    IN
    /\ UNCHANGED <<pages, places, social_relations, educations, group_memberships,
                   post_ids, comment_ids>>
    /\ IF person_username = None /\ choices = {}
         THEN fail(SaturatedEmployments)
       ELSE IF person_username # None /\ person_username[1] \notin DOMAIN pages
         THEN fail(KeyError)
       ELSE IF organisation_username = None /\ get_random_organisation(organisation_type) = {}
         THEN fail(NoOrganisations)
       ELSE IF organisation_username # None /\ organisation_username[1] \notin DOMAIN pages
         THEN fail(KeyError)
       ELSE IF date_range = None /\ get_random_timestamp("DATE", employment_range) = {}
         THEN fail(ValueError)
       ELSE
         \E employee \in (IF person_username = None THEN choices
                          ELSE {pages[person_username[1]]}) :
         \E employer \in (IF organisation_username = None
                          THEN get_random_organisation(organisation_type)
                          ELSE {pages[organisation_username[1]]}) :
           LET new == Employment(employer, employee)
           IN /\ employments' = Append(employments, new)
              /\ UNCHANGED bookstore /\ result' = Outcome("employment", args, "ok", {}, <<new>>, employments)

----------------------------------------------------------------------------
(* Conversation trees (conversation.py).  A tree is the record of its root  *)
(* author tag, the sequence of its commenter tags and the sequence of its   *)
(* nodes; a node has a local id, an optional parent local id, a content     *)
(* type, an author tag, an optional timestamp and the usertags of its body. *)

PostType ==
    {"text-post", "share-post", "image-post", "video-post", "live-video-post", "poll-post"}

Node(local_id, parent_local_id, content_type, author, timestamp, usertags) ==
    [local_id |-> local_id, parent_local_id |-> parent_local_id,
     content_type |-> content_type, author |-> author, timestamp |-> timestamp,
     usertags |-> usertags]

Conversation(root_author, commenters, nodes) ==
    [root_author |-> root_author, commenters |-> commenters, nodes |-> nodes]

\* Conversation.participants: the declared tags, the root author and the commenters
participants_of(conversation) ==
    {conversation.root_author} \cup Range(conversation.commenters)

\* Conversation.usertags: every tag referenced in the tree
usertags_of(conversation) ==
    UNION {node.usertags \cup {node.author} : node \in Range(conversation.nodes)}

\* Node.author_global_usertag(mapping).lstrip("@"): the identifier behind the
\* global tag of the author
author_username(node, usertag_mapping) == usertag_mapping[node.author][2]

----------------------------------------------------------------------------
(* conversation *)

NotImplementedError == "NotImplementedError"

NonParticipants == "RuntimeError: Conversation has non-participants tagged."

NoUsers == "RuntimeError: No users have sufficient social relations to build conversation."

NoGroups == "RuntimeError: No groups has sufficient members to build conversation."

NoPage == "RuntimeError: No page with the specified name exists."

MultiplePages == "RuntimeError: Multiple pages with the specified name exist."

NoPlace == "RuntimeError: No place with the specified name exists."

MultiplePlaces == "RuntimeError: Multiple places with the specified name exist."

SampleError == "ValueError: Sample larger than population or is negative"

RuntimeError == "RuntimeError"

\* a test that passes every tree
has_non_participants_never(conversation) == FALSE

\* len(conversation.usertags - conversation.participants) != 0
has_non_participants(conversation) ==
    usertags_of(conversation) \ participants_of(conversation) # {}

\* random.sample(choices, k): the lists of k distinct members, in any order;
\* none where k exceeds the population
sample(choices, k) ==
    {picked \in [1..k -> choices] : \A i, j \in 1..k : i # j => picked[i] # picked[j]}

\* the outcome of resolving page, author and commenters
Resolution(status, page_id, post_author, commenters) ==
    [status |-> status, page_id |-> page_id, post_author |-> post_author,
     commenters |-> commenters]

Unresolved(status) == Resolution(status, None, None, <<>>)

\* case "person-self"
resolve_self(commenter_count) ==
    LET choices == {page \in persons : social_relation_count(page) >= commenter_count}
        related(post_author) ==
            {page \in persons : get_social_relation(<<post_author, page>>) # None}
    IN IF choices = {} THEN {Unresolved(NoUsers)}
       ELSE UNION {
              IF sample(related(pages[choice.id]), commenter_count) = {}
              THEN {Unresolved(SampleError)}
              ELSE {Resolution("ok", Some(choice.id), Some(pages[choice.id]), commenters) :
                      commenters \in sample(related(pages[choice.id]), commenter_count)}
              : choice \in choices}

\* len([self._get_members(group)]): the length of a list of one generator
member_list_length(group_page) == Len(<<get_members(group_page)>>)

\* the page ids a group timeline can post to, or the error raised
resolve_page(page_name, participant_count) ==
    IF page_name = None
    THEN LET choices == {page \in groups : member_list_length(page) >= participant_count}
         IN IF choices = {} THEN {[status |-> NoGroups, page_id |-> None]}
            ELSE {[status |-> "ok", page_id |-> Some(choice.id)] : choice \in choices}
    ELSE LET named == {k \in DOMAIN pages : pages[k].name = page_name[1]}
         IN IF named = {} THEN {[status |-> NoPage, page_id |-> None]}
            ELSE IF Cardinality(named) = 1
              THEN {[status |-> "ok", page_id |-> Some(pages[k].id)] : k \in named}
            ELSE {[status |-> MultiplePages, page_id |-> None]}

\* case "person-group"
resolve_group(page_name, participant_count) ==
    UNION {
      IF page.status # "ok" THEN {Unresolved(page.status)}
      ELSE LET choices == {person_page \in persons :
                             \E member \in get_members(pages[page.page_id[1]]) :
                                PageEq(person_page, member)}
           IN IF sample(choices, participant_count) = {}
              THEN {Unresolved(SampleError)}
              ELSE {Resolution("ok", page.page_id, Some(picked[participant_count]),
                               SubSeq(picked, 1, participant_count - 1)) :
                      picked \in sample(choices, participant_count)}
      : page \in resolve_page(page_name, participant_count)}

\* a lookup that takes one of several places of the name
resolve_location_any(location_name) ==
    IF location_name = None THEN [status |-> "ok", location_id |-> None]
    ELSE LET named == {k \in DOMAIN places : places[k].name = location_name[1]}
         IN IF named = {} THEN [status |-> NoPlace, location_id |-> None]
            ELSE [status |-> "ok", location_id |-> Some(places[CHOOSE k \in named : TRUE].id)]

\* the location id of a named place, or the error raised
resolve_location(location_name) ==
    IF location_name = None THEN [status |-> "ok", location_id |-> None]
    ELSE LET named == {k \in DOMAIN places : places[k].name = location_name[1]}
         IN IF named = {} THEN [status |-> NoPlace, location_id |-> None]
            ELSE IF Cardinality(named) = 1
              THEN [status |-> "ok",
                    location_id |-> Some(places[CHOOSE k \in named : TRUE].id)]
            ELSE [status |-> MultiplePlaces, location_id |-> None]

\* usertag_mapping: each commenter tag paired with the sampled commenter at
\* its position, then the root author tag; a global tag is <<"@", id>>
usertag_mapping_of(conversation, post_author, commenters) ==
    LET paired == {i \in DOMAIN conversation.commenters : i \in DOMAIN commenters}
        last(tag) == CHOOSE i \in paired :
                        /\ conversation.commenters[i] = tag
                        /\ \A j \in paired : conversation.commenters[j] = tag => j <= i
    IN [tag \in {conversation.commenters[i] : i \in paired} \cup {conversation.root_author} |->
          IF tag = conversation.root_author THEN <<"@", post_author.id>>
          ELSE <<"@", commenters[last(tag)].id>>]

post_id_prefix == "pst"

comment_id_prefix == "cmt"

\* the smallest token that makes no identifier of `used` after prefix
fresh_token(prefix, used) ==
    generate_new_uuid({ToString(n) : n \in {m \in 1..Cardinality(used) :
                                              (prefix \o "-" \o ToString(m)) \in used}})

generate_new_post_id(used) == post_id_prefix \o "-" \o fresh_token(post_id_prefix, used)

generate_new_comment_id(used) == comment_id_prefix \o "-" \o fresh_token(comment_id_prefix, used)

RECURSIVE assign_content_ids(_, _, _)
\* the first loop over the nodes: content_id_mapping, or the error raised;
\* used holds the content ids issued so far
assign_content_ids(nodes, content_id_mapping, used) ==
    IF nodes = <<>> THEN [status |-> "ok", content_id_mapping |-> content_id_mapping]
    ELSE LET node == Head(nodes)
             content_id == IF node.content_type \in PostType
                           THEN generate_new_post_id(used)
                           ELSE generate_new_comment_id(used)
         IN IF node.content_type \notin PostType \cup {"comment"}
            THEN [status |-> RuntimeError, content_id_mapping |-> content_id_mapping]
            ELSE assign_content_ids(Tail(nodes),
                                    (node.local_id :> content_id) @@ content_id_mapping,
                                    used \cup {content_id})

\* the statement of a post: the values _post is called with
PostStatement(post_type, post_id, page_id, author_username_, location_id) ==
    [kind |-> post_type, id |-> post_id, parent_id |-> None, page_id |-> Some(page_id),
     author |-> author_username_, location_id |-> location_id]

\* a comment statement that names itself as its parent
CommentStatement_self(comment_id, parent_id, author_username_) ==
    [kind |-> "comment", id |-> comment_id, parent_id |-> Some(comment_id), page_id |-> None,
     author |-> author_username_, location_id |-> None]

\* the statement of a comment: the values comment is called with
CommentStatement(comment_id, parent_id, author_username_) ==
    [kind |-> "comment", id |-> comment_id, parent_id |-> Some(parent_id), page_id |-> None,
     author |-> author_username_, location_id |-> None]

Emission(status, new_post_ids, new_comment_ids, queries) ==
    [status |-> status, post_ids |-> new_post_ids, comment_ids |-> new_comment_ids,
     queries |-> queries]

\* every post is emitted as a text post
post_type_of_text(content_type) == "text-post"

\* the post type of the creation the second loop delegates to: text_post,
\* image_post, video_post, live_video_post and poll_post each pass their own
post_type_of(content_type) ==
    CASE content_type = "text-post" -> "text-post"
      [] content_type = "image-post" -> "image-post"
      [] content_type = "video-post" -> "video-post"
      [] content_type = "live-video-post" -> "live-video-post"
      [] content_type = "poll-post" -> "poll-post"

RECURSIVE emit(_, _, _)
\* the second loop over the nodes, from the lists and statements so far: the
\* lists and statements at the return, or at the exception raised
emit(nodes, context, done) ==
    IF nodes = <<>> \/ done.status # "ok" THEN done
    ELSE
      LET node == Head(nodes)
          failed(status) == Emission(status, done.post_ids, done.comment_ids, done.queries)
      IN IF node.content_type = "share-post" THEN failed(NotImplementedError)
         ELSE IF node.content_type \notin PostType \cup {"comment"} THEN failed(RuntimeError)
         ELSE IF node.author \notin DOMAIN context.usertag_mapping THEN failed(KeyError)
         ELSE IF node.content_type = "comment"
           THEN IF node.parent_local_id = None
                   \/ node.parent_local_id[1] \notin DOMAIN context.content_id_mapping
                  THEN failed(KeyError)
                ELSE emit(Tail(nodes), context,
                          Emission("ok", done.post_ids,
                                   Append(done.comment_ids, context.content_id_mapping[node.local_id]),
                                   Append(done.queries,
                                          CommentStatement(
                                            context.content_id_mapping[node.local_id],
                                            context.content_id_mapping[node.parent_local_id[1]],
                                            author_username(node, context.usertag_mapping)))))
         ELSE \* _post: the post id is recorded, then the timestamp is drawn
           IF node.timestamp = None
              /\ get_random_timestamp("PRECISE_DATETIME", post_range) = {}
             THEN Emission(ValueError,
                           Append(done.post_ids, context.content_id_mapping[node.local_id]),
                           done.comment_ids, done.queries)
           ELSE emit(Tail(nodes), context,
                     Emission("ok",
                              Append(done.post_ids, context.content_id_mapping[node.local_id]),
                              done.comment_ids,
                              Append(done.queries,
                                     PostStatement(
                                       post_type_of(node.content_type),
                                       context.content_id_mapping[node.local_id],
                                       context.page_id,
                                       author_username(node, context.usertag_mapping),
                                       context.location_id))))

conversation(conversation_, posting_type, page_name, location_name) ==
    LET args == <<conversation_, posting_type, page_name, location_name>>
        before == <<post_ids, comment_ids>>
        commenter_count == Len(conversation_.commenters)
        participant_count == Cardinality(participants_of(conversation_))
        fail(status) ==
            /\ UNCHANGED bookstore /\ result' = Outcome("conversation", args, status, {}, <<>>, before)
            /\ UNCHANGED <<post_ids, comment_ids>>
    IN
    /\ UNCHANGED <<pages, places, social_relations, educations, employments,
                   group_memberships>>
    /\ IF posting_type \notin {"person-self", "person-group"}
         THEN fail(NotImplementedError)
       ELSE IF has_non_participants(conversation_)
         THEN fail(NonParticipants)
       ELSE
         \E resolved \in (IF posting_type = "person-self" THEN resolve_self(commenter_count)
                          ELSE resolve_group(page_name, participant_count)) :
           IF resolved.status # "ok" THEN fail(resolved.status)
           ELSE IF resolve_location(location_name).status # "ok"
             THEN fail(resolve_location(location_name).status)
           ELSE
             LET assigned == assign_content_ids(conversation_.nodes, <<>>,
                                                Range(post_ids) \cup Range(comment_ids))
                 context == [page_id |-> resolved.page_id[1],
                             post_author |-> resolved.post_author[1],
                             commenters |-> resolved.commenters,
                             location_id |-> resolve_location(location_name).location_id,
                             usertag_mapping |->
                                 usertag_mapping_of(conversation_, resolved.post_author[1],
                                                    resolved.commenters),
                             content_id_mapping |-> assigned.content_id_mapping]
                 emitted == emit(conversation_.nodes, context,
                                 Emission("ok", post_ids, comment_ids, <<>>))
             IN IF assigned.status # "ok" THEN fail(assigned.status)
                ELSE /\ post_ids' = emitted.post_ids
                     /\ comment_ids' = emitted.comment_ids
                     /\ UNCHANGED bookstore /\ result' = Outcome("conversation", args, emitted.status, {},
                                          <<context @@ [queries |-> IF emitted.status = "ok"
                                                                    THEN emitted.queries
                                                                    ELSE <<>>]>>,
                                          before)

----------------------------------------------------------------------------
(* Inputs of the calls *)

OptLocation == {None, Some("plc-x")}

Usernames == {None} \cup {Some(<<a, b>>) : a \in DOMAIN pages, b \in DOMAIN pages}

\* explicit categories: one plain, the parentship and one romantic category
RelationTypes == {None, Some("friendship"), Some("parentship"), Some("marriage")}

----------------------------------------------------------------------------
(* Specifications *)

\* the builder after the calls that registered the places `cities` and the
\* pages `population`
Populated(cities, population) ==
    /\ pages = [k \in {p.id : p \in population} |->
                  CHOOSE p \in population : p.id = k]
    /\ places = cities
    /\ social_relations = <<>>
    /\ educations = <<>>
    /\ employments = <<>>
    /\ group_memberships = <<>>
    /\ post_ids = <<>>
    /\ comment_ids = <<>>
    /\ result = NoResult
    /\ promotion_count = 0
    /\ user_count = 0
    /\ order_count = 0

\* the pages person() can register on a new builder
PersonPages ==
    {Page("person", NoSpace(name) \o number_part, name, 0) :
       name \in UNION {generate_new_name(gender) : gender \in Gender},
       number_part \in Digits(SuffixDigits)}

\* Auto-selected participants: individuals are created, and relations are
\* requested with participants unspecified and the category unspecified or
\* explicit, until MaxRelations are recorded.
Leeds == ("c1" :> Place("city", "c1", <<"Leeds">>, None, 0))

\* n of the pages person() can register
Population(n) == CHOOSE population \in SUBSET PersonPages : Cardinality(population) = n

InitAuto == Populated(Leeds, {})

NextAuto ==
    \/ /\ Cardinality(persons) < MaxPersons
       /\ person(None, None)
    \/ /\ Len(social_relations) < MaxRelations \/ pair_choices = {}
       /\ \E type \in RelationTypes : social_relation(None, type, None)

SpecAuto == InitAuto /\ [][NextAuto]_vars

\* Auto-selection only, among FamilySize individuals registered from the start.
InitFamily == Populated(Leeds, Population(FamilySize))

NextFamily ==
    /\ Len(social_relations) < MaxRelations \/ pair_choices = {}
    /\ social_relation(None, None, None)

SpecFamily == InitFamily /\ [][NextFamily]_vars

\* Forced relations: MaxForcedPersons individuals were created with explicit
\* location ids on a builder without places; a city is created at most once,
\* and relations are requested with any combination of explicit and
\* unspecified arguments.
InitForced == Populated(<<>>, Population(MaxForcedPersons))

NextForced ==
    \/ /\ "c1" \notin DOMAIN places
       /\ city(<<"Leeds">>, "c1", None)
    \/ /\ Len(social_relations) < MaxRelations
       /\ \E usernames \in Usernames, type \in RelationTypes, location_id \in OptLocation :
            social_relation(usernames, type, location_id)

SpecForced == InitForced /\ [][NextForced]_vars

\* Group memberships with the rank never passed: MaxGroupProfiles individuals
\* are registered from the start, groups are created, an organisation is
\* registered under the identifier of the first group, and memberships are
\* requested with any member, for any identifier issued for a group, and with
\* or without a timestamp range.
InitGroup == Populated(<<>>, Population(MaxGroupProfiles))

Pagenames == {None} \cup {Some(k) : k \in DOMAIN pages}

\* no target, or a registered identifier issued for a group
GroupIds == {None} \cup {Some(k) : k \in DOMAIN pages \cap {"grp-1", "grp-2"}}

TimestampRanges == {None, Some(<<post_range[1], None>>)}

NextGroup ==
    \/ /\ Cardinality(groups) < MaxGroups
       /\ group(<<"Club">>)
    \/ /\ NextGen(pages, "grp-1") <= MaxOverwrites
       /\ organisation("company", <<"grp-1">>, Some("plc-x"))
    \/ /\ Len(group_memberships) < MaxMemberships
       /\ \E username \in Pagenames, group_id \in GroupIds, timestamp_range \in TimestampRanges :
            group_membership(username, group_id, timestamp_range, None)

SpecGroup == InitGroup /\ [][NextGroup]_vars

\* Group memberships with any rank: two groups and MaxGroupProfiles
\* individuals are registered from the start.
Clubs == {Page("group", "grp-1", <<"Club">>, 0), Page("group", "grp-2", <<"Club">>, 0)}

Ranks == {None} \cup {Some(rank) : rank \in GroupMemberRank}

InitRank == Populated(<<>>, Population(MaxGroupProfiles) \cup Clubs)

NextRank ==
    /\ Len(group_memberships) < MaxMemberships
    /\ \E username \in Pagenames, group_id \in Pagenames, rank \in Ranks :
         group_membership(username, group_id, Some(<<post_range[1], None>>), rank)

SpecRank == InitRank /\ [][NextRank]_vars

\* Affiliations of auto-selected individuals: a city and a university are
\* registered from the start; individuals are created, a company is registered
\* under the name of a handle, and educations and employments are requested
\* with every argument unspecified.
Uni == Page("university", "Uni", <<"Uni">>, 0)

InitAffiliation == Populated(Leeds, {Uni})

NextAffiliation ==
    \/ /\ Cardinality(persons) < MaxStudents
       /\ person(None, None)
    \/ /\ NextGen(pages, "AnnLee0") <= MaxOverwrites
       /\ organisation("company", <<"AnnLee0">>, None)
    \/ /\ \/ Len(educations) + Len(employments) < MaxBindings
          \/ \A page \in persons : get_education(page) # None
       /\ education(None, None, None, None)
    \/ /\ \/ Len(educations) + Len(employments) < MaxBindings
          \/ \A page \in persons : get_employment(page) # None
       /\ employment(None, None, None, None)

SpecAffiliation == InitAffiliation /\ [][NextAffiliation]_vars

\* The registry under creations: on a new builder, places are created under
\* one identifier with or without a parent, individuals are created with or
\* without location ids, organisations are created under two names (one of
\* them the handle of an individual) and groups are created.
PlaceNames == {<<"Leeds">>, <<"York">>}

OrganisationNames == {<<"Uni">>, <<"AnnLee0">>}

NextRegistry ==
    \/ /\ NextGen(places, "c1") <= MaxOverwrites
       /\ \E name \in PlaceNames, parent_id \in {None, Some("c1")} :
            city(name, "c1", parent_id)
    \/ /\ Cardinality(persons) < MaxRegistered
       /\ \E location_id \in OptLocation, birth_location_id \in OptLocation :
            person(location_id, birth_location_id)
    \/ \E organisation_type \in {"company", "school"}, name \in OrganisationNames :
         /\ NextGen(pages, NoSpace(name)) <= MaxOverwrites
         /\ \E location_id \in OptLocation : organisation(organisation_type, name, location_id)
    \/ /\ Cardinality(groups) < MaxGroups
       /\ group(<<"Club">>)

SpecRegistry == Init /\ [][NextRegistry]_vars

\* Handles at the warning threshold: MaxRegistered individuals (the warning
\* threshold) are registered from the start with a city; individuals are
\* created and companies are registered under the handles issued at the start.
InitHandles == Populated(Leeds, Population(MaxRegistered))

HandleNames == {<<page.id>> : page \in Population(MaxRegistered)}

NextHandles ==
    \/ /\ Cardinality(DOMAIN pages) < MaxHandles
       /\ \E location_id \in OptLocation, birth_location_id \in OptLocation :
            person(location_id, birth_location_id)
    \/ \E name \in HandleNames :
         /\ NextGen(pages, NoSpace(name)) <= MaxOverwrites
         /\ organisation("company", name, None)

SpecHandles == InitHandles /\ [][NextHandles]_vars

\* Conversation trees.  Every timestamp but one is given; the tags are local.
Stamp == Some(post_range[1])

\* a root post and two comments on it by two commenters
Thread ==
    Conversation("a", <<"b", "c">>,
                 <<Node("n1", None, "text-post", "a", Stamp, {"b"}),
                   Node("n2", Some("n1"), "comment", "b", Stamp, {}),
                   Node("n3", Some("n1"), "comment", "c", Stamp, {"a"})>>)

\* a root post, a comment on it and the author's comment on the comment
Reply ==
    Conversation("a", <<"b">>,
                 <<Node("n1", None, "image-post", "a", Stamp, {}),
                   Node("n2", Some("n1"), "comment", "b", Stamp, {}),
                   Node("n3", Some("n2"), "comment", "a", Stamp, {"b"})>>)

\* a root post alone
Solo == Conversation("a", <<>>, <<Node("n1", None, "poll-post", "a", Stamp, {})>>)

\* a body tags z, who is not declared
Tagged ==
    Conversation("a", <<"b">>,
                 <<Node("n1", None, "text-post", "a", Stamp, {"z"}),
                   Node("n2", Some("n1"), "comment", "b", Stamp, {})>>)

\* the comment is listed before the post it answers
Reversed ==
    Conversation("a", <<"b">>,
                 <<Node("n2", Some("n1"), "comment", "b", Stamp, {}),
                   Node("n1", None, "video-post", "a", Stamp, {})>>)

\* a comment listed before the shared post it answers
Shared ==
    Conversation("a", <<"b">>,
                 <<Node("n2", Some("n1"), "comment", "b", Stamp, {}),
                   Node("n1", None, "share-post", "a", Stamp, {})>>)

\* a root post without timestamp
Untimed == Conversation("a", <<>>, <<Node("n1", None, "text-post", "a", None, {})>>)

Trees == {Thread, Reply, Solo, Tagged, Reversed, Shared, Untimed}

LocationNames == {None, Some(<<"Leeds">>)}

\* Self timelines: MaxPersons individuals and a city are registered from the
\* start; friendships are forced between two of them, conversations are
\* requested on self timelines with and without the name of an individual and
\* a location name, and on a timeline of another kind.
InitSelf == Populated(Leeds, Population(MaxPersons))

Pairs == {Some(<<a, b>>) : a \in DOMAIN pages, b \in DOMAIN pages}

PersonNames ==
    {None, Some((CHOOSE page \in Population(MaxPersons) :
                   \A other \in Population(MaxPersons) : Len(page.id) <= Len(other.id)).name)}

NextSelf ==
    \/ /\ Len(social_relations) < MaxTies
       /\ \E usernames \in Pairs :
            /\ usernames[1][1] # usernames[1][2]
            /\ social_relation(usernames, Some("friendship"), None)
    \/ /\ Len(post_ids) + Len(comment_ids) < MaxContent
       /\ \E tree \in Trees, page_name \in PersonNames, location_name \in LocationNames :
            conversation(tree, "person-self", page_name, location_name)
    \/ /\ Len(post_ids) + Len(comment_ids) < MaxContent
       /\ conversation(Solo, "page", None, None)

SpecSelf == InitSelf /\ [][NextSelf]_vars

\* Group timelines: MaxPersons individuals, two groups named Club and one
\* group named Chess are registered from the start; cities named Leeds are
\* created under two identifiers, individuals join Chess as members, and
\* conversations are requested on group timelines with and without a page
\* name and a location name.
Societies == Clubs \cup {Page("group", "grp-3", <<"Chess">>, 0)}

InitTimeline == Populated(<<>>, Population(MaxPersons) \cup Societies)

PageNames == {None, Some(<<"Club">>), Some(<<"Chess">>), Some(<<"Go">>)}

TimelineTrees == {Thread, Solo, Tagged, Shared}

NextTimeline ==
    \/ \E place_id \in {"c1", "c2"} :
         /\ place_id \notin DOMAIN places
         /\ place_id = "c2" => "c1" \in DOMAIN places
         /\ city(<<"Leeds">>, place_id, None)
    \/ /\ Len(group_memberships) < MaxMemberships
       /\ \E username \in DOMAIN pages :
            group_membership(Some(username), Some("grp-3"),
                             Some(<<post_range[1], None>>), Some("member"))
    \/ /\ Len(post_ids) + Len(comment_ids) < MaxContent
       /\ \E tree \in TimelineTrees, page_name \in PageNames, location_name \in LocationNames :
            conversation(tree, "person-group", page_name, location_name)

SpecTimeline == InitTimeline /\ [][NextTimeline]_vars

\* Timestamps: on a new builder, strings of the three precisions are parsed
\* and written back under each of the three formats.
StampYears == 2020..(2019 + MaxStampYears)

Strings(format) ==
    CASE format = "DATE" ->
           {DateString(y, mo, d) : y \in StampYears, mo \in {1, 12}, d \in {1, 28}}
      [] format = "DATETIME" ->
           {DateTimeString(y, mo, d, s) :
              y \in StampYears, mo \in {1, 12}, d \in {1, 28}, s \in {0, 59}}
      [] format = "PRECISE_DATETIME" ->
           UNION {{PreciseString(y, mo, d, ms) : y \in StampYears, mo \in {1, 12}, d \in {1, 28}} :
                    ms \in {0, 1, 999}}

NextTimestamp ==
    \E format \in TimestampFormat, written \in TimestampFormat :
       \E timestamp \in Strings(written) : round_trip(format, timestamp)

SpecTimestamp == Init /\ [][NextTimestamp]_vars

\* Name tables: on a new builder, a name is drawn from every table of at most
\* MaxEntries entries sorted ascending by cumulative percentile.  Percentiles
\* are even, so that a draw falls on an entry's percentile or between two.
Percentiles == {2 * k : k \in 1..MaxSteps}

NameTables ==
    {name_list \in UNION {[1..n -> [value : {"Ann", "Eve", "Joy"}, percentile : Percentiles]] :
                             n \in 1..MaxEntries} :
       \A i \in 1..(Len(name_list) - 1) :
          /\ name_list[i].percentile <= name_list[i + 1].percentile
          /\ name_list[i].value # name_list[i + 1].value}

\* _choose_random_name on a table: the draw and the value returned
draw_name(name_list) ==
    \E percentile \in 0..name_list[Len(name_list)].percentile :
       /\ UNCHANGED bookstore /\ result' = Outcome("choose_random_name", <<name_list>>, "ok", {},
                            <<percentile, choose_random_name(name_list, percentile)>>, <<>>)
       /\ UNCHANGED <<pages, places, social_relations, educations, employments,
                      group_memberships, post_ids, comment_ids>>

NextNames == \E name_list \in NameTables : draw_name(name_list)

SpecNames == Init /\ [][NextNames]_vars

\* The place tree: on a new builder, a region and a city are created under one
\* identifier each, and landmarks under generated identifiers, with no parent
\* identifier, with a registered one or with one never registered.
NextPlaces ==
    \/ /\ NextGen(places, "r1") <= MaxOverwrites
       /\ \E parent_id \in {None, Some("r1"), Some("zz")} : region(<<"North">>, "r1", parent_id)
    \/ /\ NextGen(places, "c1") <= MaxOverwrites
       /\ \E name \in PlaceNames, parent_id \in {None, Some("r1"), Some("c1")} :
            city(name, "c1", parent_id)
    \/ /\ Cardinality({k \in DOMAIN places : places[k].type = "landmark"}) < MaxLandmarks
       /\ \E parent_id \in {None, Some("c1"), Some("r1"), Some("zz")} :
            landmark(<<"Pier">>, parent_id)

SpecPlaces == Init /\ [][NextPlaces]_vars

\* Duplicated relations: MaxForcedPersons individuals and a city are
\* registered from the start; friendships are forced between them, up to
\* MaxRelations, and conversations of up to three commenters are requested on
\* self timelines.
Crowd ==
    Conversation("a", <<"b", "c", "d">>,
                 <<Node("n1", None, "text-post", "a", Stamp, {}),
                   Node("n2", Some("n1"), "comment", "b", Stamp, {}),
                   Node("n3", Some("n1"), "comment", "c", Stamp, {}),
                   Node("n4", Some("n3"), "comment", "d", Stamp, {})>>)

InitDuplicates == Populated(Leeds, Population(MaxForcedPersons))

NextDuplicates ==
    \/ /\ Len(social_relations) < MaxRelations
       /\ \E usernames \in Pairs :
            /\ usernames[1][1] # usernames[1][2]
            /\ social_relation(usernames, Some("friendship"), None)
    \/ /\ Len(post_ids) + Len(comment_ids) < MaxContent
       /\ \E tree \in {Solo, Reply, Thread, Crowd} :
            conversation(tree, "person-self", None, None)

SpecDuplicates == InitDuplicates /\ [][NextDuplicates]_vars

----------------------------------------------------------------------------
(* Automatic targets: affiliations and memberships with the institute, the
   organisation or the group unspecified, before and after any is registered *)

InitTargets == Populated(Leeds, Population(MaxGroupProfiles))

\* the subtypes organisations are registered with
TargetTypes == {"company", "school", "university"}

InstituteTypes == {None, Some("school"), Some("university")}

OrganisationTypes == {None, Some("company"), Some("charity"), Some("school")}

NextTargets ==
    \/ /\ Cardinality(organisations) < MaxTargets
       /\ \E type \in TargetTypes \ DOMAIN pages : organisation(type, <<type>>, Some("c1"))
    \/ /\ groups = {}
       /\ group(<<"Club">>)
    \/ /\ Len(educations) + Len(employments) < MaxBindings
       /\ \E institute_type \in InstituteTypes :
            education(None, None, institute_type, Some(education_range))
    \/ /\ Len(educations) + Len(employments) < MaxBindings
       /\ \E organisation_type \in OrganisationTypes :
            employment(None, None, organisation_type, Some(employment_range))
    \/ /\ Len(group_memberships) < MaxMemberships
       /\ group_membership(None, None, Some(<<post_range[1], None>>), None)

SpecTargets == InitTargets /\ [][NextTargets]_vars

----------------------------------------------------------------------------
(* The retry loop of _generate_new_person_username, one draw at a time: the
   record of the last step holds the name the loop was entered with, whether
   it is still running, the handle it returned and the last handle it
   rejected. *)

Running == "running"

\* the loop is entered with a name, after the advisory warning
enter_username_loop(name) ==
    /\ result.status # Running
    /\ UNCHANGED bookstore /\ result' = Outcome("generate_new_person_username", <<name>>, Running,
                         IF Cardinality(persons) >= username_warning_threshold
                         THEN {WarnUsernames} ELSE {},
                         <<>>, <<>>)
    /\ UNCHANGED <<pages, places, social_relations, educations, employments,
                   group_memberships, post_ids, comment_ids>>

\* one pass of the loop that returns whatever it draws
username_loop_unchecked ==
    /\ result.op = "generate_new_person_username"
    /\ result.status = Running
    /\ \E number_part \in Digits(SuffixDigits) :
         UNCHANGED bookstore /\ result' = [result EXCEPT !.status = "ok",
                                  !.chosen = <<NoSpace(result.args[1]) \o number_part>>]
    /\ UNCHANGED <<pages, places, social_relations, educations, employments,
                   group_memberships, post_ids, comment_ids>>

\* one pass of the loop: a suffix is drawn, the handle is returned unless a
\* registered individual has it
username_loop ==
    /\ result.op = "generate_new_person_username"
    /\ result.status = Running
    /\ \E number_part \in Digits(SuffixDigits) :
         LET username == NoSpace(result.args[1]) \o number_part
         IN IF username \notin {page.id : page \in persons}
              THEN UNCHANGED bookstore /\ result' = [result EXCEPT !.status = "ok", !.chosen = <<username>>]
            ELSE UNCHANGED bookstore /\ result' = [result EXCEPT !.before = <<username>>]
    /\ UNCHANGED <<pages, places, social_relations, educations, employments,
                   group_memberships, post_ids, comment_ids>>

\* person() stores the page under the handle the loop returned
store_person ==
    /\ result.op = "generate_new_person_username"
    /\ result.status = "ok"
    /\ LET username == result.chosen[1]
           new == Page("person", username, result.args[1], NextGen(pages, username))
       IN /\ pages' = (username :> new) @@ pages
          /\ UNCHANGED bookstore /\ result' = Outcome("person", <<None, None>>, "ok", {}, <<new>>, <<>>)
    /\ UNCHANGED <<places, social_relations, educations, employments,
                   group_memberships, post_ids, comment_ids>>

\* the registries with up to MaxHandles registered individuals
InitLoop ==
    \E population \in SUBSET PersonPages :
       /\ Cardinality(population) <= MaxHandles
       /\ Populated(Leeds, population)

FullNames == UNION {generate_new_name(gender) : gender \in Gender}

NextLoop ==
    \/ \E name \in FullNames : enter_username_loop(name)
    \/ username_loop
    \/ store_person

SpecLoop == InitLoop /\ [][NextLoop]_vars

\* the pass that draws a handle no registered individual has
Accepted == username_loop /\ result'.status = "ok"

\* fair random draws: a suffix that stays possible is eventually drawn
FairLoop == SpecLoop /\ WF_vars(Accepted)

----------------------------------------------------------------------------
(* Posts created directly *)

\* _post: the id is generated unless given and recorded, then the timestamp
\* is drawn unless given, then the statement is built
post(post_type, page_id, author_username_, post_id, creation_timestamp) ==
    LET new_id == IF post_id = None
                  THEN generate_new_post_id(Range(post_ids) \cup Range(comment_ids))
                  ELSE post_id[1]
        recorded == Append(post_ids, new_id)
    IN IF creation_timestamp = None
          /\ get_random_timestamp("PRECISE_DATETIME", post_range) = {}
         THEN Emission(ValueError, recorded, comment_ids, <<>>)
       ELSE Emission("ok", recorded, comment_ids,
                     <<PostStatement(post_type, new_id, page_id, author_username_, None)>>)

text_post(page_id, author_username_, post_id, creation_timestamp) ==
    LET made == post("text-post", page_id, author_username_, post_id, creation_timestamp)
    IN /\ post_ids' = made.post_ids
       /\ UNCHANGED bookstore /\ result' = Outcome("text_post", <<page_id, author_username_, post_id, creation_timestamp>>,
                            made.status, {}, made.queries, post_ids)
       /\ UNCHANGED <<pages, places, social_relations, educations, employments,
                      group_memberships, comment_ids>>

\* share_post: the post is made by _post, then NotImplementedError is raised
share_post(page_id, author_username_, post_id, creation_timestamp) ==
    LET made == post("share-post", page_id, author_username_, post_id, creation_timestamp)
    IN /\ post_ids' = made.post_ids
       /\ UNCHANGED bookstore /\ result' = Outcome("share_post", <<page_id, author_username_, post_id, creation_timestamp>>,
                            IF made.status = "ok" THEN NotImplementedError ELSE made.status,
                            {}, <<>>, post_ids)
       /\ UNCHANGED <<pages, places, social_relations, educations, employments,
                      group_memberships, comment_ids>>

InitPosts == Populated(Leeds, Population(MaxForcedPersons))

\* the post ids a caller passes, and the timestamps
GivenPostIds == {None, Some("a"), Some("b")}

GivenStamps == {None, Some(post_range[1])}

NextPosts ==
    \/ /\ Len(post_ids) < MaxPosts
       /\ \E page_id \in DOMAIN pages, post_id \in GivenPostIds, stamp \in GivenStamps :
            text_post(page_id, page_id, post_id, stamp)
    \/ /\ Len(post_ids) < MaxPosts
       /\ \E page_id \in DOMAIN pages, post_id \in GivenPostIds, stamp \in GivenStamps :
            share_post(page_id, page_id, post_id, stamp)

SpecPosts == InitPosts /\ [][NextPosts]_vars

----------------------------------------------------------------------------
(* Mixed registries: individuals beside a company and a group, a company
   registered under the handle of an individual; relations are requested
   with the participants unspecified *)

InitMixed == Populated(Leeds, Population(MaxPersons))

NextMixed ==
    \/ /\ \E name \in {<<"Acme">>, <<"AnnLee0">>} :
            /\ NextGen(pages, NoSpace(name)) <= MaxOverwrites
            /\ organisation("company", name, Some("c1"))
    \/ /\ groups = {}
       /\ group(<<"Club">>)
    \/ /\ Len(social_relations) < MaxTies \/ pair_choices = {}
       /\ social_relation(None, None, Some("c1"))

SpecMixed == InitMixed /\ [][NextMixed]_vars

----------------------------------------------------------------------------
(* The bookstore builder (src/src/query_builder.py): three counters, the
   identifiers made from them, and the statements that draw on them *)

\* the collections of the social-media builder, which the bookstore leaves alone
social == <<pages, places, social_relations, educations, employments,
            group_memberships, post_ids, comment_ids>>

user_id_prefix == "U"

promotion_id_prefix == "P"

order_id_prefix == "O"

\* the error a failed assert statement raises
FailedCheck == "AssertionError"

RECURSIVE str(_)
\* str(n) of a natural number, in the scaled-down base
str(n) ==
    IF n < id_base THEN ToString(n)
    ELSE str(n \div id_base) \o ToString(n % id_base)

RECURSIVE zfill(_, _)
\* text.zfill(width): zeros on the left up to width, longer text as it is
zfill(text, width) ==
    IF Len(text) >= width THEN text ELSE zfill("0" \o text, width)

\* the largest count the assertions of get_new_*_id let through, plus one
id_limit == id_base ^ id_digits - 1

\* the draw of randint(0, count) written as an identifier
random_ids_from_zero(prefix, count) ==
    {prefix \o zfill(str(number), id_digits) : number \in 0..count}

\* the draw of randint(1, count) written as an identifier
random_ids(prefix, count) ==
    {prefix \o zfill(str(number), id_digits) : number \in 1..count}

\* a call that returns an identifier or fails, leaving what it does not count
id_call(op, status, chosen, before) ==
    /\ result' = Outcome(op, <<>>, status, {}, chosen, before)
    /\ UNCHANGED social

get_new_promotion_id ==
    IF ~(promotion_count < id_limit)
      THEN id_call("get_new_promotion_id", FailedCheck, <<>>, promotion_count)
           /\ UNCHANGED bookstore
    ELSE /\ promotion_count' = promotion_count + 1
         /\ id_call("get_new_promotion_id", "ok",
                    <<promotion_id_prefix \o zfill(str(promotion_count + 1), id_digits)>>,
                    promotion_count)
         /\ UNCHANGED <<user_count, order_count>>

get_random_promotion_id ==
    /\ UNCHANGED bookstore
    /\ IF ~(promotion_count > 0)
         THEN id_call("get_random_promotion_id", FailedCheck, <<>>, promotion_count)
       ELSE \E id \in random_ids(promotion_id_prefix, promotion_count) :
              id_call("get_random_promotion_id", "ok", <<id>>, promotion_count)

get_new_user_id ==
    IF ~(user_count < id_limit)
      THEN id_call("get_new_user_id", FailedCheck, <<>>, user_count)
           /\ UNCHANGED bookstore
    ELSE /\ user_count' = user_count + 1
         /\ id_call("get_new_user_id", "ok",
                    <<user_id_prefix \o zfill(str(user_count + 1), id_digits)>>, user_count)
         /\ UNCHANGED <<promotion_count, order_count>>

get_random_user_id ==
    /\ UNCHANGED bookstore
    /\ IF ~(user_count > 0)
         THEN id_call("get_random_user_id", FailedCheck, <<>>, user_count)
       ELSE \E id \in random_ids(user_id_prefix, user_count) :
              id_call("get_random_user_id", "ok", <<id>>, user_count)

get_new_order_id ==
    IF ~(order_count < id_limit)
      THEN id_call("get_new_order_id", FailedCheck, <<>>, order_count)
           /\ UNCHANGED bookstore
    ELSE /\ order_count' = order_count + 1
         /\ id_call("get_new_order_id", "ok",
                    <<order_id_prefix \o zfill(str(order_count + 1), id_digits)>>, order_count)
         /\ UNCHANGED <<promotion_count, user_count>>

get_random_order_id ==
    /\ UNCHANGED bookstore
    /\ IF ~(order_count > 0)
         THEN id_call("get_random_order_id", FailedCheck, <<>>, order_count)
       ELSE \E id \in random_ids(order_id_prefix, order_count) :
              id_call("get_random_order_id", "ok", <<id>>, order_count)

\* order: the order id is issued, then the user id is drawn unless given
order(user_id) ==
    /\ UNCHANGED <<promotion_count, user_count>>
    /\ UNCHANGED social
    /\ IF ~(order_count < id_limit)
         THEN /\ result' = Outcome("order", <<user_id>>, FailedCheck, {}, <<>>, order_count)
              /\ UNCHANGED order_count
       ELSE /\ order_count' = order_count + 1
            /\ LET order_id == order_id_prefix \o zfill(str(order_count + 1), id_digits)
               IN IF user_id = None /\ ~(user_count > 0)
                    THEN result' = Outcome("order", <<user_id>>, FailedCheck, {},
                                           <<order_id>>, order_count)
                  ELSE \E id \in (IF user_id = None
                                  THEN random_ids(user_id_prefix, user_count)
                                  ELSE {user_id[1]}) :
                         result' = Outcome("order", <<user_id>>, "ok", {},
                                           <<order_id, id>>, order_count)

InitBookstore == Populated(<<>>, {})

NextBookstore ==
    \/ get_new_promotion_id
    \/ get_random_promotion_id
    \/ get_new_user_id
    \/ get_random_user_id
    \/ get_new_order_id
    \/ get_random_order_id
    \/ \E user_id \in {None, Some("U01")} : order(user_id)

SpecBookstore == InitBookstore /\ [][NextBookstore]_vars

----------------------------------------------------------------------------
(* Vocabulary of the properties.  An individual is named by its identifier. *)

Romantic == {"relationship", "engagement", "marriage"}

\* the identifiers of the two participants of a relation
Joined(relation) == {relation.persons[1].id, relation.persons[2].id}

RegisteredIndividuals == {k \in DOMAIN pages : pages[k].type = "person"}

\* the individuals of the run: registered, or participant of a recorded relation
Individuals == RegisteredIndividuals \cup UNION {Joined(r) : r \in Range(social_relations)}

\* the relations of list that individual id takes part in
RelationsOf(list, id) == {i \in DOMAIN list : id \in Joined(list[i])}

RomanticOf(list, id) == {i \in RelationsOf(list, id) : list[i].type \in Romantic}

\* the parentship relations of list in which id is the child
ParentsOf(list, id) ==
    {i \in DOMAIN list : list[i].type = "parentship" /\ list[i].persons[2].id = id}

\* every two distinct registered individuals are joined by a relation of list
AllPairsRelated(list) ==
    \A a, b \in RegisteredIndividuals :
        a # b => \E i \in DOMAIN list : Joined(list[i]) = {a, b}

SocialCall == result.op = "social_relation"

----------------------------------------------------------------------------
(* Properties *)

\* C1: while the participants of every social_relation call were
\* auto-selected, no two recorded relations join the same unordered pair of
\* individuals.
C1_OneRelationPerPair ==
    \A i, j \in DOMAIN social_relations :
        i # j => Joined(social_relations[i]) # Joined(social_relations[j])

\* three relations recorded by auto-selected participants, one of them with
\* an explicit category
C1_Witness ==
    /\ SocialCall
    /\ result.args[2] # None
    /\ result.status = "ok"
    /\ Len(social_relations) = 3

\* C2: a call with participants unspecified made when every pair of distinct
\* individuals is already related fails with the exhaustion error and records
\* nothing; with at most two individuals and no explicit participants at most
\* one relation is ever recorded.
C2_Exhaustion ==
    /\ (SocialCall /\ result.args[1] = None /\ AllPairsRelated(result.before))
          => (result.status = Saturated /\ social_relations = result.before)
    /\ Cardinality(Individuals) <= 2 => Len(social_relations) <= 1

\* the call fails on a pool of three individuals saturated by three relations
C2_Witness ==
    /\ SocialCall
    /\ result.status = Saturated
    /\ Cardinality(RegisteredIndividuals) = 3
    /\ Len(social_relations) = 3

\* C3: while every social_relation call auto-selected participants and
\* category, every individual takes part in at most one romantic relation.
C3_OneRomanticRelation ==
    \A id \in Individuals : Cardinality(RomanticOf(social_relations, id)) <= 1

\* an auto-selected relation is recorded for an individual who already held a
\* romantic relation
C3_Witness ==
    /\ SocialCall
    /\ result.status = "ok"
    /\ \E id \in Joined(result.chosen[1]) : RomanticOf(result.before, id) # {}

\* C4: while every social_relation call auto-selected participants and
\* category, every individual is the child of at most two parentships.
C4_TwoParents ==
    \A id \in Individuals : Cardinality(ParentsOf(social_relations, id)) <= 2

\* an auto-selected relation is recorded whose second participant already had
\* two parents
C4_Witness ==
    /\ SocialCall
    /\ result.status = "ok"
    /\ Cardinality(ParentsOf(result.before, result.chosen[1].persons[2].id)) = 2

\* the participants of relation are both participants of one relation of list
Related(list, relation) == \E i \in DOMAIN list : Joined(relation) \subseteq Joined(list[i])

\* the call resolved its participants and its category
Resolved == SocialCall /\ result.chosen # <<>>

\* a location was passed, or a city is registered to draw one from
HasLocation == result.args[3] # None \/ \E k \in DOMAIN places : places[k].type = "city"

\* the call appended the relation it resolved and nothing else
Recorded == result.status = "ok" /\ social_relations = Append(result.before, result.chosen[1])

\* the call raised for want of a place and recorded nothing
NoPlaceFailure == result.status = NoPlaces /\ social_relations = result.before

RomanticConflict ==
    /\ result.chosen[1].type \in Romantic
    /\ \E id \in Joined(result.chosen[1]) : RomanticOf(result.before, id) # {}

ThirdParent ==
    /\ result.chosen[1].type = "parentship"
    /\ Cardinality(ParentsOf(result.before, result.chosen[1].persons[2].id)) >= 2

\* C9 as stated: an explicit pair that is already related is warned about,
\* recorded and answered with a statement, whatever else holds.
C9_AsStated ==
    (Resolved /\ result.args[1] # None /\ Related(result.before, result.chosen[1]))
        => (WarnDuplicate \in result.warnings /\ Recorded)

\* C9 (amended): a call with explicit participants who are already related
\* surfaces the duplicate warning; it records the relation (the list grows by
\* that one relation) when a location id is passed or a city is registered,
\* and otherwise fails for want of a place, recording nothing.
C9_ForcedDuplicate ==
    (Resolved /\ result.args[1] # None /\ Related(result.before, result.chosen[1]))
        => /\ WarnDuplicate \in result.warnings
           /\ IF HasLocation THEN Recorded ELSE NoPlaceFailure

\* a forced duplicate is recorded with its warning
C9_Witness ==
    /\ Resolved
    /\ result.args[1] # None
    /\ Related(result.before, result.chosen[1])
    /\ WarnDuplicate \in result.warnings
    /\ Recorded
    /\ result.chosen[1].persons[1].id # result.chosen[1].persons[2].id

\* C10 as stated: a forced romantic conflict or third parent is warned about
\* and recorded, whatever else holds.
C10_AsStated ==
    (Resolved /\ (RomanticConflict \/ ThirdParent))
        => (result.warnings # {} /\ Recorded)

\* C10 (amended): a call that resolved its participants surfaces the
\* relationship warning exactly on a romantic conflict, the parentship warning
\* exactly on a third parent and the duplicate warning exactly on a related
\* pair; none of them when participants and category were both auto-selected;
\* and the relation is recorded when a location id is passed or a city is
\* registered, the call failing for want of a place otherwise.
C10_Warnings ==
    Resolved =>
        /\ WarnRelationship \in result.warnings <=> RomanticConflict
        /\ WarnParentship \in result.warnings <=> ThirdParent
        /\ WarnDuplicate \in result.warnings <=> Related(result.before, result.chosen[1])
        /\ (result.args[1] = None /\ result.args[2] = None) => result.warnings = {}
        /\ IF HasLocation THEN Recorded ELSE NoPlaceFailure

\* a forced third parentship of a pair not yet related is recorded with the
\* parentship warning alone
C10_Witness ==
    /\ Resolved
    /\ ThirdParent
    /\ result.warnings = {WarnParentship}
    /\ Recorded

----------------------------------------------------------------------------
(* Group memberships *)

MembershipCall == result.op = "group_membership"

\* the owner memberships of list whose target is the group named id
OwnersOf(list, id) ==
    {i \in DOMAIN list :
       list[i].group.type = "group" /\ list[i].group.id = id /\ list[i].rank = "owner"}

\* the identifiers of the groups that memberships were recorded for
TargetGroups ==
    {m.group.id : m \in {n \in Range(group_memberships) : n.group.type = "group"}}

----------------------------------------------------------------------------
(* Affiliations *)

\* the identifier of the individual bound by an education or an employment
Bound(binding) ==
    IF "attendee" \in DOMAIN binding THEN binding.attendee.id ELSE binding.employee.id

\* the bindings of list that bind individual id
BindingsOf(list, id) == {i \in DOMAIN list : Bound(list[i]) = id}

AffiliationCall == result.op \in {"education", "employment"}

ExhaustionError ==
    IF result.op = "education" THEN SaturatedEducations ELSE SaturatedEmployments

\* the list the last call appends to
Bindings == IF result.op = "education" THEN educations ELSE employments

\* C7: an education (employment) call with the individual unspecified, made
\* when every registered individual already has an education (employment)
\* binding, fails with the exhaustion error and leaves the list unchanged.
C7_Exhaustion ==
    (AffiliationCall /\ result.args[1] = None
       /\ \A id \in RegisteredIndividuals : BindingsOf(result.before, id) # {})
        => (result.status = ExhaustionError /\ Bindings = result.before)

\* C8: an auto-selected individual has no binding of the kind yet, and while
\* the individual is never passed every individual has at most one education
\* binding and at most one employment binding.
C8_OneBinding ==
    /\ (AffiliationCall /\ result.status = "ok" /\ result.args[1] = None)
          => BindingsOf(result.before, Bound(result.chosen[1])) = {}
    /\ \A i, j \in DOMAIN educations : i # j => Bound(educations[i]) # Bound(educations[j])
    /\ \A i, j \in DOMAIN employments : i # j => Bound(employments[i]) # Bound(employments[j])


----------------------------------------------------------------------------
(* Registry *)

RegistryCall == result.op \in {"person", "organisation", "group", "city"}

\* every registered page keeps its category and its name in the step
KeptPages ==
    \A k \in DOMAIN pages :
        /\ k \in DOMAIN pages'
        /\ pages'[k].type = pages[k].type
        /\ pages'[k].name = pages[k].name

\* every registered place keeps its category, its name and its parent in the step
KeptPlaces ==
    \A k \in DOMAIN places :
        /\ k \in DOMAIN places'
        /\ places'[k].type = places[k].type
        /\ places'[k].name = places[k].name
        /\ places'[k].parent = places[k].parent

\* the step is a creation under an identifier that was registered already
CreatesExisting ==
    /\ result'.op \in {"person", "organisation", "group", "city"}
    /\ result'.chosen # <<>>
    /\ result'.chosen[1].id \in (IF result'.op = "city" THEN DOMAIN places ELSE DOMAIN pages)

\* C11: a creation under an identifier that is already registered fails, and
\* no creation replaces the category, name or parent stored under an
\* identifier.
C11_RegisterOnce ==
    [][/\ KeptPages
       /\ KeptPlaces
       /\ CreatesExisting => result'.status # "ok"]_vars

----------------------------------------------------------------------------
(* Person handles *)

\* C19: the handle a person() call obtains is the identifier of no individual
\* registered when it is called, and a person() call adds one registered
\* individual when it succeeds and none when it fails, so that the registered
\* individuals are as many as the successful person() calls.
C19_DistinctHandles ==
    [][result'.op = "person" =>
         /\ result'.chosen[1].id \notin RegisteredIndividuals
         /\ Cardinality(RegisteredIndividuals') =
              Cardinality(RegisteredIndividuals) + (IF result'.status = "ok" THEN 1 ELSE 0)]_vars

\* the handles issued so far: under SpecLoop every registered identifier
\* was issued as the handle of an individual
IssuedHandles == DOMAIN pages

\* the threshold 10^(suffix digit count), at the scale of the model
WarningThreshold == DigitBase ^ SuffixDigits

\* C20: a person() call surfaces the username warning exactly when the number
\* of handles issued before it has reached the threshold, and still issues a
\* handle and registers the individual.
C20_ThresholdWarning ==
    [][result'.op = "person" =>
         /\ WarnUsernames \in result'.warnings
              <=> Cardinality(IssuedHandles) >= WarningThreshold
         /\ result'.status = "ok"
         /\ result'.chosen[1].id \in RegisteredIndividuals']_vars

----------------------------------------------------------------------------
(* Conversations *)

\* the last call was conversation() for a self or a group timeline
Conversed == result.op = "conversation"

\* the tree, the timeline kind and the names the last call was given
Tree == result.args[1]

\* the tags the tree declares: its root author and its commenters
Declared(tree) == {tree.root_author} \cup {tree.commenters[i] : i \in DOMAIN tree.commenters}

\* some node of the tree is written by, or mentions, an undeclared tag
TagsUndeclared(tree) ==
    \E i \in DOMAIN tree.nodes :
       \/ tree.nodes[i].author \notin Declared(tree)
       \/ \E tag \in tree.nodes[i].usertags : tag \notin Declared(tree)

\* the last call returned no statement
NoStatement == result.status # "ok" /\ result.chosen = <<>>

\* the last call recorded no content identifier
NothingRecorded == <<post_ids, comment_ids>> = result.before

\* C13: conversation() called with a tree in which some usertag is not a
\* declared participant fails before any statement is emitted: it returns no
\* statement and records no post id and no comment id.
C13_NonParticipantFails ==
    (Conversed /\ TagsUndeclared(Tree)) => (NoStatement /\ NothingRecorded)

\* a tree tagging an undeclared participant was refused on a timeline for
\* which the participants could have been resolved
C13_Witness ==
    /\ Conversed
    /\ TagsUndeclared(Tree)
    /\ result.args[2] = "person-self"
    /\ result.status = NonParticipants
    /\ \E id \in RegisteredIndividuals : Cardinality(RelationsOf(social_relations, id)) >= 1

\* the last call was a conversation that returned its statements
Succeeded(posting_type) ==
    Conversed /\ result.args[2] = posting_type /\ result.status = "ok"

\* the identifiers of the resolved post author and commenters of the last call
AuthorId == result.chosen[1].post_author.id

CommenterIds == [i \in DOMAIN result.chosen[1].commenters |-> result.chosen[1].commenters[i].id]

Distinct(ids) == \A i, j \in DOMAIN ids : i # j => ids[i] # ids[j]

\* C14: in every successful self-timeline conversation(), the resolved
\* commenters are pairwise distinct individuals, none of them is the post
\* author, and each is the other participant of a recorded social relation
\* of the post author.
C14_CommentersAreContacts ==
    Succeeded("person-self") =>
      /\ Distinct(CommenterIds)
      /\ \A i \in DOMAIN CommenterIds :
            /\ CommenterIds[i] # AuthorId
            /\ \E k \in DOMAIN social_relations :
                 Joined(social_relations[k]) = {AuthorId, CommenterIds[i]}

\* the identifiers of the individuals recorded as members of the page
MemberIds(page_id) ==
    {group_memberships[i].member.id :
       i \in {j \in DOMAIN group_memberships : group_memberships[j].group.id = page_id}}

RegisteredGroups == {k \in DOMAIN pages : pages[k].type = "group"}

\* the number of participants the tree declares
ParticipantCount(tree) == Cardinality(Declared(tree))

\* the last call failed while choosing the posting page or its participants
ResolutionFailed == Conversed /\ result.status \in {NoGroups, SampleError}

\* C15: in every successful group-timeline conversation(), the posting page
\* is a registered group with at least participant-count members and the
\* post author and the commenters are pairwise distinct members of it; with
\* no page name given, resolution fails only if no group has enough members.
C15_GroupParticipants ==
    /\ Succeeded("person-group") =>
          /\ result.chosen[1].page_id \in RegisteredGroups
          /\ Cardinality(MemberIds(result.chosen[1].page_id)) >= ParticipantCount(Tree)
          /\ Distinct(<<AuthorId>> \o CommenterIds)
          /\ \A id \in Range(<<AuthorId>> \o CommenterIds) :
                id \in MemberIds(result.chosen[1].page_id)
    /\ (ResolutionFailed /\ result.args[2] = "person-group" /\ result.args[3] = None) =>
          \A group_id \in RegisteredGroups :
             Cardinality(MemberIds(group_id)) < ParticipantCount(Tree)

\* the last call resolved its participants and assigned the content ids
Assigned == Conversed /\ result.chosen # <<>>

\* the global content ids of the last call, by local id
ContentIds == result.chosen[1].content_id_mapping

\* the statements the last call returned
Statements == result.chosen[1].queries

\* C16: in conversation(), a global content id is assigned to every node of
\* the tree before the first statement is emitted, and the parent id of every
\* comment statement is the global id assigned to the node that the comment's
\* parent local id names.
C16_ParentIds ==
    Assigned =>
      /\ DOMAIN ContentIds = {Tree.nodes[i].local_id : i \in DOMAIN Tree.nodes}
      /\ \A i \in DOMAIN Statements :
            Statements[i].kind = "comment" =>
              Statements[i].parent_id = Some(ContentIds[Tree.nodes[i].parent_local_id[1]])

\* a root post with two comments was emitted, and both comments name the
\* identifier of the root post as their parent
C16_Witness ==
    /\ Succeeded("person-self")
    /\ Tree = Thread
    /\ Len(Statements) = 3
    /\ Statements[2].parent_id = Some(Statements[1].id)
    /\ Statements[3].parent_id = Some(Statements[1].id)
    /\ Statements[1].id = ContentIds["n1"]

\* the statement of node i of the tree under the assigned content ids: a
\* post of the node's subtype or a comment, with the node's global id
Creates(statement, node) ==
    /\ statement.kind = node.content_type
    /\ statement.id = ContentIds[node.local_id]

\* C17: a successful conversation() returns exactly one statement per node
\* of the tree, in the tree's node order: the i-th statement creates the
\* i-th node, as a post of the node's subtype or as a comment, carrying the
\* node's pre-assigned global id.
C17_OneStatementPerNode ==
    (Conversed /\ result.status = "ok") =>
      /\ Len(Statements) = Len(Tree.nodes)
      /\ \A i \in DOMAIN Tree.nodes : Creates(Statements[i], Tree.nodes[i])

\* a tree of a post followed by two comments was emitted as three statements
C17_Witness ==
    /\ Succeeded("person-self")
    /\ Len(Tree.nodes) = 3
    /\ Len(Statements) = 3
    /\ Statements[1].kind \in PostType
    /\ Statements[2].kind = "comment"
    /\ Statements[3].kind = "comment"
    /\ Statements[1].id \in Range(post_ids)
    /\ {Statements[2].id, Statements[3].id} \subseteq Range(comment_ids)

\* the registered pages and places of a display name
PagesNamed(name) == {k \in DOMAIN pages : pages[k].name = name}

PlacesNamed(name) == {k \in DOMAIN places : places[k].name = name}

\* the page name and the location name the last call was given
PageName == result.args[3]

LocationName == result.args[4]

\* C18: in conversation(), a page name (on a group timeline) or a location
\* name is resolved only when exactly one registered page or place has that
\* display name, and then to that one; with zero or several matches the call
\* fails, returns no statement and records no content id.
C18_UniqueNames ==
    Conversed =>
      /\ (result.args[2] = "person-group" /\ PageName # None) =>
            IF Cardinality(PagesNamed(PageName[1])) = 1
            THEN result.status = "ok" => PagesNamed(PageName[1]) = {result.chosen[1].page_id}
            ELSE NoStatement /\ NothingRecorded
      /\ LocationName # None =>
            IF Cardinality(PlacesNamed(LocationName[1])) = 1
            THEN result.status = "ok" =>
                   /\ result.chosen[1].location_id # None
                   /\ PlacesNamed(LocationName[1]) = {result.chosen[1].location_id[1]}
            ELSE NoStatement /\ NothingRecorded

\* the page name was resolved to its one group and its members, and the call
\* was refused because two places have the location name
C18_Witness ==
    /\ Conversed
    /\ result.args[2] = "person-group"
    /\ PageName # None
    /\ Cardinality(PagesNamed(PageName[1])) = 1
    /\ LocationName # None
    /\ Cardinality(PlacesNamed(LocationName[1])) = 2
    /\ result.status = MultiplePlaces
    /\ NothingRecorded

----------------------------------------------------------------------------
(* Timestamp formats *)

\* the last call parsed a string under a format and wrote it back
RoundTrip == result.op = "round_trip"

\* C21: for each of the three precisions and every validly formatted string
\* of that precision, to_string(parse_string(s)) returns s.
C21_RoundTrip ==
    (RoundTrip /\ result.args[2] \in Strings(result.args[1])) =>
      /\ result.status = "ok"
      /\ result.chosen = <<result.args[2]>>

----------------------------------------------------------------------------
(* Weighted sampler *)

\* the last call drew a name from a table
Sampled == result.op = "choose_random_name"

Table == result.args[1]

Draw == result.chosen[1]

Returned == result.chosen[2]

\* C22: on a non-empty table sorted ascending by cumulative percentile and a
\* draw between 0 and the last percentile, the sampler returns the value of
\* the first entry whose cumulative percentile is at least the draw, which is
\* a value of the table, also where the table has one entry.
C22_FirstAtLeast ==
    Sampled =>
      \E i \in DOMAIN Table :
         /\ Returned = Some(Table[i].value)
         /\ Table[i].percentile >= Draw
         /\ \A j \in 1..(i - 1) : Table[j].percentile < Draw

\* a draw on the percentile of the last of three entries returned its value
C22_Witness ==
    /\ Sampled
    /\ Len(Table) = 3
    /\ Table[2].percentile < Draw
    /\ Draw = Table[3].percentile
    /\ Returned = Some(Table[3].value)

----------------------------------------------------------------------------
(* The place tree *)

\* the step is a creation of a place; its parent identifier as passed
PlaceCreation == result'.op \in PlaceType

GivenParent == result'.args[3]

Created == result'.chosen[1]

\* the creation failed and left the registered places as they were
Refused == result'.status # "ok" /\ places' = places

\* the creation registered the place it returned
Registered == result'.status = "ok" /\ places'[Created.id] = Created

UnregisteredParent == GivenParent # None /\ GivenParent[1] \notin DOMAIN places

Cities == {k \in DOMAIN places : places[k].type = "city"}

\* C23 as stated: creating a place with a parent identifier that is not
\* registered fails and registers nothing; a place created without a parent
\* identifier is a root.
C23_AsStated ==
    [][PlaceCreation =>
         /\ UnregisteredParent => Refused
         /\ (GivenParent = None /\ result'.status = "ok") =>
               (Registered /\ Created.parent = None)]_vars

\* C23: creating a place with a parent identifier that is not registered
\* fails and registers nothing; a region or city created without a parent
\* identifier is a root; a landmark created without one is attached to a
\* registered city, and fails and registers nothing where no city is
\* registered.
C23_Roots ==
    [][PlaceCreation =>
         /\ UnregisteredParent => Refused
         /\ (GivenParent = None /\ result'.op # "landmark") =>
               (Registered /\ Created.parent = None)
         /\ (GivenParent = None /\ result'.op = "landmark") =>
               IF Cities = {} THEN Refused
               ELSE /\ Registered
                    /\ Created.parent # None
                    /\ \E k \in Cities : Created.parent[1] = places[k]]_vars

\* a landmark created without parent identifier hangs under a city, and a
\* region was created as a root
C23_Witness ==
    /\ result.op = "landmark"
    /\ result.args[3] = None
    /\ result.status = "ok"
    /\ result.chosen[1].parent # None
    /\ result.chosen[1].parent[1].type = "city"
    /\ \E k \in DOMAIN places : places[k].type = "region" /\ places[k].parent = None

RECURSIVE Ancestry(_)
\* the identifiers met from a place along its parent references, up to the
\* parentless place
Ancestry(place_) ==
    IF place_.parent = None THEN <<place_.id>>
    ELSE <<place_.id>> \o Ancestry(place_.parent[1])

\* the identifier of the parent of a place, if it has one
ParentId(place_) == IF place_.parent = None THEN None ELSE Some(place_.parent[1].id)

\* C24: following parent references from any registered place reaches a
\* parentless root without revisiting a place identifier, and the parent of a
\* registered place identifier never changes after its creation.
C24_Tree ==
    [][/\ \A k \in DOMAIN places' : Distinct(Ancestry(places'[k]))
       /\ \A k \in DOMAIN places : ParentId(places'[k]) = ParentId(places[k])]_vars

----------------------------------------------------------------------------
(* Failed creations *)

\* the step is a person() or organisation() that failed for want of a city
CreationWithoutCity ==
    /\ result'.op \in {"person", "organisation"}
    /\ result'.status = NoPlaces

\* C25: if person() or organisation() fails because no city is registered
\* and no location id was supplied, the registry is the same as before the
\* call.
C25_FailedCreation == [][CreationWithoutCity => pages' = pages]_vars

\* C26: if conversation() fails for any reason, also while emitting a later
\* node after earlier nodes were emitted, the recorded post ids and comment
\* ids are the same as before the call.
C26_FailureRecordsNothing ==
    (Conversed /\ result.status # "ok") => NothingRecorded

\* the individuals other than id that a recorded relation joins with id
Contacts(id) == UNION {Joined(social_relations[i]) : i \in RelationsOf(social_relations, id)} \ {id}

CommenterCount(tree) == Len(tree.commenters)

\* some individual has at least as many relations as the tree has commenters
SomeoneSuffices ==
    \E id \in RegisteredIndividuals :
       Cardinality(RelationsOf(social_relations, id)) >= CommenterCount(Tree)

\* C27: in a self-timeline conversation(), whenever some individual has a
\* social-relation count of at least the commenter count, participant
\* resolution succeeds: the chosen author has at least commenter-count
\* distinct related individuals and sampling does not fail, also after
\* relations were duplicated between the same pair.
C27_ResolutionSucceeds ==
    (Conversed /\ result.args[2] = "person-self" /\ ~TagsUndeclared(Tree) /\ SomeoneSuffices) =>
      /\ result.status \notin {NoUsers, SampleError}
      /\ result.chosen # <<>> => Cardinality(Contacts(AuthorId)) >= CommenterCount(Tree)

----------------------------------------------------------------------------
(* Candidate categories *)

\* the categories offered for first and second under the relations of list
Candidates(list, first, second) ==
    {"friendship", "family", "siblingship"}
    \cup (IF Cardinality(ParentsOf(list, second)) < 2 THEN {"parentship"} ELSE {})
    \cup (IF RomanticOf(list, first) = {} /\ RomanticOf(list, second) = {}
          THEN Romantic ELSE {})

\* the last call resolved a relation with the category unspecified
AutoCategory ==
    /\ result.op = "social_relation"
    /\ result.args[2] = None
    /\ result.chosen # <<>>

\* C28: when the category is unspecified, the candidate set social_relation
\* draws from is {friendship, family, siblingship}, plus parentship if and
\* only if the second participant has fewer than two parents, plus the three
\* romantic categories if and only if neither participant holds a romantic
\* relation; the recorded category is a member of that set.
C28_Candidates ==
    /\ \A first \in RegisteredIndividuals, second \in RegisteredIndividuals :
          Range(relation_type_choices(<<pages[first], pages[second]>>))
            = Candidates(social_relations, first, second)
    /\ AutoCategory =>
          result.chosen[1].type
            \in Candidates(result.before, result.chosen[1].persons[1].id,
                           result.chosen[1].persons[2].id)

\* a romantic category was drawn and recorded for a second participant who
\* had two parents, parentship being no candidate
C28_Witness ==
    /\ AutoCategory
    /\ result.status = "ok"
    /\ Len(social_relations) = Len(result.before) + 1
    /\ Cardinality(ParentsOf(result.before, result.chosen[1].persons[2].id)) = 2
    /\ result.chosen[1].type \in Romantic

----------------------------------------------------------------------------
(* Automatic members *)

\* the last call was a group_membership with the member unspecified
AutoMember == result.op = "group_membership" /\ result.args[1] = None

\* the registered identifiers of profile-capable pages
RegisteredProfiles == {k \in DOMAIN pages : is_profile(pages[k].type)}

\* the identifiers recorded in list as members of the group page_id
MembersIn(list, page_id) ==
    {list[i].member.id : i \in {j \in DOMAIN list : list[j].group.id = page_id}}

\* every profile-capable entity is recorded in list as a member of page_id
Exhausted(list, page_id) == RegisteredProfiles \subseteq MembersIn(list, page_id)

\* the groups the last call could have targeted
Targets ==
    IF result.args[2] = None THEN RegisteredGroups ELSE {result.args[2][1]}

\* C29: with the member unspecified, the selected member is a profile-capable
\* entity, never a group, and not already a member of the target group; when
\* every profile-capable entity is already a member the call fails with the
\* exhaustion error and records no membership.
C29_AutoMember ==
    AutoMember =>
      /\ result.status = "ok" =>
           LET new == result.chosen[1]
           IN /\ new.member.id \in RegisteredProfiles
              /\ new.member.type # "group"
              /\ new.member.id \notin RegisteredGroups
              /\ new.member.id \notin MembersIn(result.before, new.group.id)
      /\ (Targets # {} /\ \A page_id \in Targets : Exhausted(result.before, page_id))
           => /\ result.status = SaturatedGroup
              /\ group_memberships = result.before

----------------------------------------------------------------------------
(* Automatic targets *)

\* the errors raised where an automatic selection has no candidate
Exhaustions ==
    {Saturated, SaturatedEducations, SaturatedEmployments, SaturatedGroup,
     NoInstitutes, NoOrganisations, NoPlaces}

\* the errors of participant exhaustion
ParticipantExhaustions ==
    {Saturated, SaturatedEducations, SaturatedEmployments, SaturatedGroup}

\* the last call was an affiliation whose target was left to the builder
AutoTarget == result.op \in {"education", "employment"} /\ result.args[2] = None

\* the registered identifiers of the broad category the last call draws from
Category ==
    {k \in DOMAIN pages :
       IF result.op = "education" THEN is_institute(pages[k].type)
       ELSE is_organisation(pages[k].type)}

\* those of the requested subtype, or the category when none is requested
Requested ==
    IF result.args[3] = None THEN Category
    ELSE {k \in Category : pages[k].type = result.args[3][1]}

\* the target recorded by the last successful call
Target ==
    IF result.op = "education" THEN result.chosen[1].institute
    ELSE IF result.op = "employment" THEN result.chosen[1].employer
    ELSE result.chosen[1].group

\* the bindings or memberships the last call could add to
RecordedList ==
    IF result.op = "education" THEN educations
    ELSE IF result.op = "employment" THEN employments
    ELSE group_memberships

\* the participant of the last affiliation was resolved: the target is selected
ParticipantResolved ==
    /\ result.status \notin ParticipantExhaustions
    /\ result.args[1] # None => result.args[1][1] \in DOMAIN pages

\* the affiliations: no candidate of the requested subtype is the target
\* exhaustion error; a selected target is a registered entity of that subtype
AffiliationTargets ==
    (AutoTarget /\ ParticipantResolved) =>
      /\ Requested = {} =>
           /\ result.status \in Exhaustions \ ParticipantExhaustions
           /\ RecordedList = result.before
      /\ result.status = "ok" => Target.id \in Requested /\ pages[Target.id] = Target

\* the last call was a membership whose group was left to the builder
AutoGroup == result.op = "group_membership" /\ result.args[2] = None

\* the memberships: no registered group is an exhaustion error other than the
\* participants'; a selected group is a registered group
GroupTargets ==
    AutoGroup =>
      /\ RegisteredGroups = {} =>
           /\ result.status \in Exhaustions \ ParticipantExhaustions
           /\ RecordedList = result.before
      /\ result.status = "ok" => Target.id \in RegisteredGroups /\ pages[Target.id] = Target

\* C30: an auto-selected target with no candidate (no registered institute or
\* organisation of the requested subtype, no registered group) fails the
\* operation with an exhaustion error other than the participant-exhaustion
\* error and records no binding or membership; when candidates exist the
\* selected target is a registered entity of the requested subtype, or of the
\* broad category when no subtype is given.
C30_TargetExhaustion == AffiliationTargets /\ GroupTargets

----------------------------------------------------------------------------
(* Named self timelines *)

\* the page the last call posts on
PostingPage == result.chosen[1].page_id

\* C31: in a self-timeline conversation() called with a page name, the
\* posting page and the post author is the individual with that name: the
\* named individual is accepted, no other individual is drawn in its place.
C31_NamedAuthor ==
    (Succeeded("person-self") /\ PageName # None) =>
      /\ AuthorId \in PagesNamed(PageName[1])
      /\ PostingPage = AuthorId

----------------------------------------------------------------------------
(* The collision loop *)

\* the loop is running on the name it was entered with
Looping == result.op = "generate_new_person_username" /\ result.status = Running

\* the handles of the normalized name of the running loop
Handles == {NoSpace(result.args[1]) \o number_part : number_part \in Digits(SuffixDigits)}

\* some suffix of the name is used by no registered individual
SomeFree == Handles \ RegisteredIndividuals # {}

\* the loop has returned a handle
HandleReturned == result.op = "generate_new_person_username" /\ result.status = "ok"

\* C32: the collision loop has no hard cap: under fair random draws it
\* eventually returns a handle whenever some suffix of the normalized name is
\* used by no registered individual, and it never returns and never fails
\* when every suffix of that name is used.
C32_CollisionLoop ==
    /\ (Looping /\ SomeFree) ~> (HandleReturned /\ result.chosen[1] \in Handles \ RegisteredIndividuals)
    /\ [][(Looping /\ ~SomeFree) => (Looping /\ ~SomeFree)']_vars

\* a handle was returned after a drawn handle was rejected
C32_Witness ==
    /\ HandleReturned
    /\ result.before # <<>>
    /\ result.before[1] \in RegisteredIndividuals
    /\ result.chosen[1] \notin RegisteredIndividuals

----------------------------------------------------------------------------
(* Shared posts *)

Shared_ == result.op = "share_post"

\* C33: share_post always fails with the not-implemented error and leaves the
\* builder as it was: the failed call records no post id.
C33_ShareFails ==
    Shared_ => /\ result.status = NotImplementedError
               /\ post_ids = result.before

----------------------------------------------------------------------------
(* Automatic participants *)

\* the last call recorded a relation between participants it selected
AutoParticipants ==
    /\ result.op = "social_relation"
    /\ result.args[1] = None
    /\ result.status = "ok"

\* C34: every social relation recorded by a call with auto-selected
\* participants joins two distinct registered individuals: it pairs no
\* individual with itself and involves no organisation and no group.
C34_DistinctIndividuals ==
    AutoParticipants =>
      LET new == result.chosen[1]
      IN /\ social_relations = Append(result.before, new)
         /\ new.persons[1].id # new.persons[2].id
         /\ \A i \in 1..2 :
              /\ new.persons[i].id \in RegisteredIndividuals
              /\ pages[new.persons[i].id] = new.persons[i]
              /\ new.persons[i].type = "person"

\* participants were selected while a company and a group were registered
C34_Witness ==
    /\ AutoParticipants
    /\ RegisteredGroups # {}
    /\ \E k \in DOMAIN pages : pages[k].type = "company"
    /\ Len(social_relations) = Len(result.before) + 1

----------------------------------------------------------------------------
(* Bookstore orders *)

\* the last call was an order without a user id while no user id was issued
OrderWithoutUsers ==
    /\ result.op = "order"
    /\ result.args[1] = None
    /\ user_count = 0

\* C35: in the bookstore builder, order() called without a user id when no
\* user id has been issued fails and leaves the order counter as it was: the
\* next order id issued is the one that would have been issued without the
\* failed call.
C35_FailedOrder ==
    OrderWithoutUsers =>
      /\ result.status # "ok"
      /\ order_count = result.before

----------------------------------------------------------------------------
(* Bookstore identifiers *)

Kinds == {"promotion", "user", "order"}

Count(kind) ==
    CASE kind = "promotion" -> promotion_count
      [] kind = "user" -> user_count
      [] kind = "order" -> order_count

Initial(kind) ==
    CASE kind = "promotion" -> "P"
      [] kind = "user" -> "U"
      [] kind = "order" -> "O"

NewOp(kind) == "get_new_" \o kind \o "_id"

RandomOp(kind) == "get_random_" \o kind \o "_id"

RECURSIVE Number(_)
\* the number a string of digits denotes
Number(text) ==
    IF text = "" THEN 0
    ELSE Number(SubSeq(text, 1, Len(text) - 1)) * id_base
         + (CHOOSE d \in 0..(id_base - 1) : ToString(d) = SubSeq(text, Len(text), Len(text)))

\* id is the identifier of this kind numbered number, in the fixed width
Numbered(id, kind, number) ==
    /\ Len(id) = 1 + id_digits
    /\ SubSeq(id, 1, 1) = Initial(kind)
    /\ \A i \in 2..Len(id) : \E d \in 0..(id_base - 1) : ToString(d) = SubSeq(id, i, i)
    /\ Number(SubSeq(id, 2, Len(id))) = number

\* what the last call returned, seen from the counter: the n-th identifier
\* issued is the one numbered n, so the identifiers issued so far are those
\* numbered 1..Count, which are pairwise distinct
IdsInOrder ==
    \A kind \in Kinds :
      /\ Count(kind) \in 0..id_limit
      /\ (result.op = NewOp(kind) /\ result.status = "ok") =>
           /\ Count(kind) = result.before + 1
           /\ Numbered(result.chosen[1], kind, Count(kind))
      /\ result.op = RandomOp(kind) =>
           IF Count(kind) = 0 THEN result.status # "ok"
           ELSE /\ result.status = "ok"
                /\ \E number \in 1..Count(kind) : Numbered(result.chosen[1], kind, number)

\* a counter moves only by one, when an identifier with its number is issued
IssuedOneByOne ==
    \A kind \in Kinds :
      Count(kind)' # Count(kind) =>
        /\ Count(kind)' = Count(kind) + 1
        /\ result'.op \in {NewOp(kind)} \cup (IF kind = "order" THEN {"order"} ELSE {})
        /\ result'.chosen # <<>>
        /\ Numbered(result'.chosen[1], kind, Count(kind)')

\* C36: in the bookstore builder, after any sequence of calls,
\* get_random_user_id, get_random_promotion_id and get_random_order_id return
\* only an identifier that the matching get_new_*_id returned before, and fail
\* when none has been issued; the identifiers get_new_*_id returns are
\* pairwise distinct, numbered consecutively from 1 and never wider than the
\* identifier width.
C36_IssuedIds == []IdsInOrder /\ [][IssuedOneByOne]_vars

\* an identifier other than the last one issued was drawn with the counter at
\* its limit
C36_Witness ==
    /\ result.op = "get_random_user_id"
    /\ result.status = "ok"
    /\ user_count = id_limit
    /\ ~Numbered(result.chosen[1], "user", user_count)
====
